---- MODULE Spec2Model ----
(***************************************************************************)
(* A model of the Magic Newton bot's resilience and orchestration core:    *)
(* RetryUtils (retry, withTimeout), the ApiClient gateway, CaptchaService, *)
(* AuthService, QuestService, MinesweeperService and the per-account       *)
(* runner.  Time is in milliseconds.  Every asynchronous function is a     *)
(* task with a program counter and a wake-up time; a task runs from one    *)
(* await to the next in one step, as the JavaScript event loop runs it.    *)
(***************************************************************************)
EXTENDS Integers, Sequences, FiniteSets, TLC

VARIABLES
  rt,     \* one RetryUtils.retry execution (direct, or inside an ApiClient method)
  wt,     \* one withTimeout(promise, timeoutMs, errorMessage) race
  qs,     \* one QuestService.completeQuests() execution
  ms,     \* one MinesweeperService._playOneGame() execution
  au,     \* one AuthService.authenticate() execution with its two captcha solves
  ac,     \* one AccountRunner.run() execution
  obs,    \* what the environment observed (history the code does not keep)
  px,     \* one ProxyService and the proxies it handed out
  bot,    \* the process: its Bot instances and their start() / runMainLoop() chains
  pg,     \* one MinesweeperService.playGame() execution
  gw      \* one ApiClient instance: its default Cookie header and its requests

vars == <<rt, wt, qs, ms, au, ac, obs, px, bot, pg, gw>>

\* The variables a retry execution leaves alone.
othersRetry == <<wt, qs, ms, au, ac, px, bot, pg, gw>>

\* The variables a withTimeout race leaves alone.
othersTimeout == <<rt, qs, ms, au, ac, obs, px, bot, pg, gw>>

\* The variables a QuestService execution leaves alone.
othersQuest == <<rt, wt, ms, au, ac, obs, px, bot, pg, gw>>

\* The variables a minesweeper game leaves alone.
othersMine == <<rt, wt, qs, au, ac, obs, px, bot, pg, gw>>

\* The variables an account run and its authentication leave alone.
othersAccount == <<rt, wt, qs, ms, obs, px, bot, pg, gw>>

\* The variables a ProxyService leaves alone, and those the process leaves alone.
othersProxy == <<rt, wt, qs, ms, au, ac, obs, bot, pg, gw>>
othersBot == <<rt, wt, qs, ms, au, ac, obs, px, pg, gw>>

\* The variables a playGame execution leaves alone.
othersPlay == <<rt, wt, qs, ms, au, ac, obs, px, bot, gw>>

\* The variables an ApiClient's interceptor leaves alone.
othersGateway == <<rt, wt, qs, ms, au, ac, obs, px, bot, pg>>

Undefined == "undefined"

Min(S) == CHOOSE x \in S : \A y \in S : x <= y
Max(S) == CHOOSE x \in S : \A y \in S : x >= y

(***************************************************************************)
(* Errors.  An error is a record: its message, the HTTP status of the      *)
(* response it carries (0: no response) and that response's data.message.  *)
(***************************************************************************)
Err(message, status, dataMessage) ==
  [message |-> message, status |-> status, dataMessage |-> dataMessage]

NetErr(message) == Err(message, 0, Undefined)
NoError == Err("", 0, Undefined)
\* Values are records; NoValue stands where there is none.
NoValue == [none |-> TRUE]
HttpErr(status, dataMessage) ==
  Err("Request failed with status code " \o ToString(status), status, dataMessage)

AlreadyCompletedMsg == "Quest already completed"

\* What `this.randomInt` raises when retry runs with `this` undefined.
TypeErrorThis == NetErr("Cannot read properties of undefined (reading 'randomInt')")

\* The substrings the code searches error messages for.
Probes == {"ECONNRESET", "ETIMEDOUT", "socket hang up", "network error", "timeout",
           "400", "Daily limit"}

\* message.includes(probe), case-sensitive, for the messages of the model.
Includes(message, probe) ==
  CASE message = "read ECONNRESET" -> probe = "ECONNRESET"
    [] message = "connect ETIMEDOUT" -> probe = "ETIMEDOUT"
    [] message = "socket hang up" -> probe = "socket hang up"
    [] message = "timeout of 30000ms exceeded" -> probe = "timeout"
    [] message = "Network Error" -> FALSE
    [] message = "Request failed with status code 400" -> probe = "400"
    [] message = "Daily limit reached" -> probe = "Daily limit"
    [] OTHER -> FALSE

\* text.includes(part)
Contains(text, part) ==
  \E i \in 1 .. Len(text) - Len(part) + 1 : SubSeq(text, i, i + Len(part) - 1) = part

\* The failures of one HTTP request through axios.
NetworkErrors ==
  {NetErr("read ECONNRESET"), NetErr("connect ETIMEDOUT"), NetErr("socket hang up"),
   NetErr("timeout of 30000ms exceeded"), NetErr("Network Error")}

HttpErrors ==
  {HttpErr(500, Undefined), HttpErr(401, Undefined), HttpErr(400, "Bad request"),
   HttpErr(400, AlreadyCompletedMsg)}

RequestErrors == NetworkErrors \cup HttpErrors

(***************************************************************************)
(* RetryUtils.retry                                                        *)
(***************************************************************************)
DefaultMaxAttempts == 5
DefaultInitialDelayMs == 1000
DefaultMaxDelayMs == 30000

\* retryableErrors of the quest-submission gateway methods.
GatewayRetryable == {"ECONNRESET", "ETIMEDOUT", "socket hang up", "network error", "timeout"}

Pow2(n) == IF n <= 0 THEN 1 ELSE 2 ^ n

\* An eligibility test that ignores the allow-list.
ShouldRetryAny(retryableErrors, error) == TRUE

\* retryableErrors.length === 0 || retryableErrors.some(m => error.message.includes(m))
ShouldRetry(retryableErrors, error) ==
  \/ retryableErrors = {}
  \/ \E m \in retryableErrors : Includes(error.message, m)

\* A connection test that also takes a message with "timeout" for a connection error.
IsConnectionErrorOrTimeout(error) ==
  \E probe \in GatewayRetryable : Includes(error.message, probe)

IsConnectionError(error) ==
  \/ Includes(error.message, "ECONNRESET")
  \/ Includes(error.message, "ETIMEDOUT")
  \/ Includes(error.message, "socket hang up")
  \/ Includes(error.message, "network error")

\* A delay without the exponent.
BackoffDelayFlat(attempts, initialDelayMs, maxDelayMs, error) ==
  LET base == Min({initialDelayMs, maxDelayMs})
  IN IF IsConnectionError(error) THEN Min({base * 2, maxDelayMs}) ELSE base

\* Math.min(initialDelayMs * Math.pow(2, attempts - 1), maxDelayMs), doubled
\* (and capped again) for a connection error.
BackoffDelay(attempts, initialDelayMs, maxDelayMs, error) ==
  LET base == Min({initialDelayMs * Pow2(attempts - 1), maxDelayMs})
  IN IF IsConnectionError(error) THEN Min({base * 2, maxDelayMs}) ELSE base

\* A jitter as large as the delay.
MaxJitterFull(delay) == delay

\* Math.floor(delay * 0.3)
MaxJitter(delay) == (3 * delay) \div 10

\* randomInt(0, Math.floor(delay * 0.3)): every integer of the range; ranges wider
\* than JitterEnum are sampled at their ends and middle.
JitterEnum == 12
JitterChoices(delay) ==
  IF MaxJitter(delay) <= JitterEnum
    THEN 0 .. MaxJitter(delay)
    ELSE {0, MaxJitter(delay) \div 2, MaxJitter(delay)}

\* The retry loop's state when it starts: options after destructuring defaults.
RetryStart(bound, maxAttempts, initialDelayMs, maxDelayMs, retryableErrors) ==
  [bound |-> bound, maxAttempts |-> maxAttempts, initialDelayMs |-> initialDelayMs,
   maxDelayMs |-> maxDelayMs, retryableErrors |-> retryableErrors,
   attempts |-> 0, calls |-> 0, sleeps |-> 0, lastError |-> NoError,
   pc |-> IF maxAttempts > 0 THEN "call" ELSE "thrown",
   value |-> NoValue, thrown |-> NoError, wait |-> 0, delay |-> 0]

\* fn() resolved with `value`: return await fn().
RetryAfterSuccess(r, value) ==
  [r EXCEPT !.calls = r.calls + 1, !.pc = "returned", !.value = value]

\* The catch block, after waitTime is computed (this bound).
RetryBackoff(r, error, jitter) ==
  LET attempts == r.attempts + 1
      delay == BackoffDelay(attempts, r.initialDelayMs, r.maxDelayMs, error)
  IN [r EXCEPT !.calls = r.calls + 1, !.attempts = attempts, !.lastError = error,
               !.pc = "sleep", !.delay = delay, !.wait = delay + jitter,
               !.sleeps = r.sleeps + 1]

\* A catch block that gives up one attempt early (attempts >= maxAttempts - 1).
RetryAfterFailureEarly(r, error, jitter) ==
  LET attempts == r.attempts + 1
  IN IF ~ShouldRetry(r.retryableErrors, error) \/ attempts >= r.maxAttempts - 1
       THEN [r EXCEPT !.calls = r.calls + 1, !.attempts = attempts,
                      !.lastError = error, !.pc = "thrown", !.thrown = error]
     ELSE RetryBackoff(r, error, jitter)

\* fn() rejected with `error`: the catch block of the loop.
RetryAfterFailure(r, error, jitter) ==
  LET attempts == r.attempts + 1
  IN IF ~ShouldRetry(r.retryableErrors, error) \/ attempts >= r.maxAttempts
       THEN [r EXCEPT !.calls = r.calls + 1, !.attempts = attempts,
                      !.lastError = error, !.pc = "thrown", !.thrown = error]
     ELSE IF ~r.bound
       THEN [r EXCEPT !.calls = r.calls + 1, !.attempts = attempts,
                      !.lastError = error, !.pc = "thrown", !.thrown = TypeErrorThis]
     ELSE RetryBackoff(r, error, jitter)

\* await this.sleep(waitTime) is over: back to the loop's test.
RetryAfterSleep(r) ==
  IF r.attempts < r.maxAttempts
    THEN [r EXCEPT !.pc = "call"]
    ELSE [r EXCEPT !.pc = "thrown", !.thrown = r.lastError]

(***************************************************************************)
(* ApiClient: the gateway.  Two ApiClient sources exist: the one that      *)
(* imports `{ retry }` out of the RetryUtils class (so retry runs with     *)
(* `this` undefined) and the one that calls RetryUtils.retry.              *)
(***************************************************************************)
ApiDestructured == "ApiClient{retry}"          \* src/services/captcha.js:197-605
ApiNamespaced == "ApiClient.RetryUtils.retry"  \* src/core/Bot.js:404-719
ApiVariants == {ApiDestructured, ApiNamespaced}

RetryIsBound(api) == api = ApiNamespaced

GatewayOps == {"getSession", "getCsrfToken", "login", "getUserInfo", "getQuests",
               "getUserQuests", "completeQuest"}

Null == "null"

\* The data of a quest submission response, and of a user-quest history record.
\* An optional number is a sequence: <<>> when the field is absent, <<n>> otherwise.
Absent == <<>>
Some(n) == <<n>>
\* x || 0
OrZero(x) == IF x = Absent THEN 0 ELSE x[1]

QData(questId, status, message, credits, rolledCredits, game) ==
  [questId |-> questId, status |-> status, message |-> message, credits |-> credits,
   rolledCredits |-> rolledCredits, game |-> game]

\* The synthetic result of completeQuest for "Quest already completed".
AlreadyCompletedResult(api) ==
  [data |-> QData(Undefined, "COMPLETED", AlreadyCompletedMsg, Absent,
                  IF api = ApiNamespaced THEN Some(0) ELSE Absent, Undefined)]

\* The retry options an ApiClient method passes: this.options.retries?.x || default.
\* (an absent number is written 0: both are falsy)
OrDefault(x, default) == IF x = 0 THEN default ELSE x

NoRetries == [max_attempts |-> 0, initial_delay |-> 0, max_delay |-> 0]

\* A gateway whose quest submission passes no allow-list.
OpRetryableNone(op) == {}

OpRetryable(op) == IF op = "completeQuest" THEN GatewayRetryable ELSE {}

GatewayStart(api, op, retries) ==
  RetryStart(RetryIsBound(api),
             OrDefault(retries.max_attempts, DefaultMaxAttempts),
             OrDefault(retries.initial_delay, DefaultInitialDelayMs),
             OrDefault(retries.max_delay, DefaultMaxDelayMs),
             OpRetryable(op))

Resolved(value) == [ok |-> TRUE, value |-> value, error |-> NoError]
Rejected(error) == [ok |-> FALSE, value |-> NoValue, error |-> error]

\* A closure that rethrows every request error.
GatewayFnRethrow(api, op, resp) ==
  IF resp.ok THEN Resolved(resp.value) ELSE Rejected(resp.error)

\* The function an ApiClient method hands to retry: one request and the method's
\* normalisation of its failure.  `resp` is the request's settlement.
GatewayFn(api, op, resp) ==
  IF resp.ok THEN Resolved(resp.value)
  ELSE CASE op = "getSession" /\ resp.error.status = 401 -> Resolved([user |-> Null])
         [] op = "getUserInfo" /\ resp.error.status = 401 ->
              Rejected(NetErr("Session expired or unauthorized"))
         [] op \in {"getQuests", "getUserQuests"} /\ resp.error.status = 204 ->
              Resolved([data |-> <<>>])
         [] op = "completeQuest" /\ resp.error.status = 400
              /\ resp.error.dataMessage = AlreadyCompletedMsg ->
              Resolved(AlreadyCompletedResult(api))
         [] OTHER -> Rejected(resp.error)

\* What fn is when retry is called directly: the function itself settles.
DirectFn(api, op, resp) == resp

RetryFn(api, op, resp) ==
  IF op = "fn" THEN DirectFn(api, op, resp) ELSE GatewayFn(api, op, resp)

\* One settlement of fn inside the retry loop.
RetryOnSettled(r, settled, jitter) ==
  IF settled.ok THEN RetryAfterSuccess(r, settled.value)
  ELSE RetryAfterFailure(r, settled.error, jitter)

(***************************************************************************)
(* SpecRetry: one retry execution, called directly with any options or     *)
(* through an ApiClient method, against a function or endpoint that may    *)
(* succeed or fail on each invocation.                                     *)
(***************************************************************************)
MaxTries == 3

\* (initialDelayMs, maxDelayMs) of direct calls, and retries sections of a config.
DelayConfigs == {<<10, 45>>, <<1000, 30000>>}
RetriesConfigs ==
  {NoRetries, [max_attempts |-> 3, initial_delay |-> 1000, max_delay |-> 1500]}

OkValues(op, callNo) ==
  CASE op = "fn" -> {[callNo |-> callNo]}
    [] op = "getSession" -> {[user |-> "remote-user"], [user |-> Null]}
    [] op = "getCsrfToken" -> {[csrfToken |-> "csrf-remote"]}
    [] op = "login" -> {[url |-> "https://www.magicnewton.com/portal"]}
    [] op = "completeQuest" ->
         {[data |-> QData("q1", "COMPLETED", Undefined, Some(12), Some(12), Undefined)]}
    [] OTHER -> {[data |-> <<>>]}

Settlements(op, callNo) ==
  {Resolved(v) : v \in OkValues(op, callNo)} \cup {Rejected(e) : e \in RequestErrors}

RetryCalls ==
  {[api |-> Undefined, op |-> "fn", retries |-> NoRetries]
     @@ RetryStart(TRUE, m, d[1], d[2], allow) :
       m \in 1 .. MaxTries, d \in DelayConfigs, allow \in {{}, GatewayRetryable}}
  \cup
  {[api |-> api, op |-> op, retries |-> retries] @@ GatewayStart(api, op, retries) :
       api \in ApiVariants, op \in GatewayOps, retries \in RetriesConfigs}

WtIdle == [pc |-> "idle"]
RtIdle == [pc |-> "idle"]
QsIdle == [pc |-> "idle"]
MsIdle == [pc |-> "idle"]
AuIdle == [pc |-> "idle"]
AcIdle == [pc |-> "idle", returned |-> FALSE]

\* Observations of a retry execution: the last settlement of fn, whether every
\* invocation failed, whether every failure was retry-eligible, and the number
\* of the first invocation that succeeded (0: none); alreadyCall is the number of
\* the request the server answered with 400 "Quest already completed" (0: none);
\* prevError and prevWait are the failure before the last one and the wait that
\* followed it.
ObsRetryStart ==
  [lastFnError |-> NoError, allFailed |-> TRUE, allRetryable |-> TRUE, okCall |-> 0,
   alreadyCall |-> 0, prevError |-> NoError, prevWait |-> 0]

IsAlreadyCompleted(resp) ==
  ~resp.ok /\ resp.error.status = 400 /\ resp.error.dataMessage = AlreadyCompletedMsg

ObsRetry(resp, settled) ==
  IF settled.ok
    THEN [obs EXCEPT !.allFailed = FALSE,
                     !.okCall = IF obs.okCall = 0 THEN rt.calls + 1 ELSE obs.okCall,
                     !.alreadyCall = IF IsAlreadyCompleted(resp) /\ obs.alreadyCall = 0
                                       THEN rt.calls + 1 ELSE obs.alreadyCall]
    ELSE [obs EXCEPT !.lastFnError = settled.error,
                     !.prevError = obs.lastFnError, !.prevWait = rt.wait,
                     !.alreadyCall = IF IsAlreadyCompleted(resp) /\ obs.alreadyCall = 0
                                       THEN rt.calls + 1 ELSE obs.alreadyCall,
                     !.allRetryable = obs.allRetryable
                                        /\ ShouldRetry(rt.retryableErrors, settled.error)]

IdleRetry == rt = RtIdle /\ obs = ObsRetryStart
IdleTimeout == wt = WtIdle
IdleQuest == qs = QsIdle
IdleMine == ms = MsIdle
IdleAccount == au = AuIdle /\ ac = AcIdle
PxIdle == [pc |-> "idle"]
BotIdle == [pc |-> "idle"]
IdleProxy == px = PxIdle
IdleBot == bot = BotIdle
PgIdle == [pc |-> "idle"]
IdlePlay == pg = PgIdle
GwIdle == [pc |-> "idle"]
IdleGateway == gw = GwIdle

InitRetry ==
  /\ rt \in RetryCalls /\ obs = ObsRetryStart
  /\ IdleTimeout /\ IdleQuest /\ IdleMine /\ IdleAccount /\ IdleProxy /\ IdleBot /\ IdlePlay /\ IdleGateway

\* fn is invoked and resolves.
RetryFnResolves ==
  /\ rt.pc = "call"
  /\ \E s \in Settlements(rt.op, rt.calls + 1) :
       /\ RetryFn(rt.api, rt.op, s).ok
       /\ rt' = RetryOnSettled(rt, RetryFn(rt.api, rt.op, s), 0)
       /\ obs' = ObsRetry(s, RetryFn(rt.api, rt.op, s))
  /\ UNCHANGED othersRetry

\* fn is invoked and rejects.
RetryFnRejects ==
  /\ rt.pc = "call"
  /\ \E s \in Settlements(rt.op, rt.calls + 1) :
       LET settled == RetryFn(rt.api, rt.op, s)
       IN /\ ~settled.ok
          /\ obs' = ObsRetry(s, settled)
          /\ \E jitter \in JitterChoices(BackoffDelay(rt.attempts + 1, rt.initialDelayMs,
                                                       rt.maxDelayMs, settled.error)) :
               rt' = RetryOnSettled(rt, settled, jitter)
  /\ UNCHANGED othersRetry

\* The backoff sleep is over.
RetrySleepDone ==
  /\ rt.pc = "sleep"
  /\ rt' = RetryAfterSleep(rt)
  /\ obs' = obs
  /\ UNCHANGED othersRetry

NextRetry == RetryFnResolves \/ RetryFnRejects \/ RetrySleepDone

SpecRetry == InitRetry /\ [][NextRetry]_vars

(***************************************************************************)
(* Claims on RetryUtils.retry and the gateway's use of it.                 *)
(***************************************************************************)
RetryFinished == rt.pc \in {"returned", "thrown"}

\* C4: RetryUtils.retry(fn, {maxAttempts}) with maxAttempts >= 1 invokes fn at most
\* maxAttempts times; when it returns, it returns the value of the first invocation
\* that succeeded, which is the last one made; when every invocation failed with a
\* retry-eligible error it throws the last invocation's error after exactly
\* maxAttempts invocations.
C4_RetryBoundedAndFaithful ==
  (rt.bound /\ rt.maxAttempts >= 1) =>
    /\ rt.calls <= rt.maxAttempts
    /\ rt.pc = "returned" =>
         /\ obs.okCall = rt.calls
         /\ rt.calls = rt.attempts + 1
         /\ rt.op = "fn" => rt.value = [callNo |-> obs.okCall]
    /\ (rt.pc = "thrown" /\ obs.allFailed /\ obs.allRetryable) =>
         /\ rt.calls = rt.maxAttempts
         /\ rt.thrown = obs.lastFnError

\* C4 witness: a direct call with maxAttempts 3 has failed three times and thrown.
C4_Witness_Exhausted ==
  /\ rt.op = "fn" /\ rt.maxAttempts = 3 /\ rt.pc = "thrown"
  /\ rt.calls = 3 /\ obs.allRetryable /\ rt.sleeps = 2

\* C5 (as claimed): a gateway fetch of an ApiClient built with no retry configuration,
\* whose request fails on every try, issues the request exactly 5 times with a backoff
\* sleep between consecutive tries, and then raises the last request's error.
FetchOps == {"getSession", "getCsrfToken", "login", "getUserInfo", "getQuests",
             "getUserQuests"}

C5_FetchRetriedFiveTimes ==
  (/\ rt.api = ApiDestructured /\ rt.op \in FetchOps /\ rt.retries = NoRetries
   /\ rt.pc = "thrown" /\ obs.allFailed) =>
    /\ rt.calls = DefaultMaxAttempts
    /\ rt.sleeps = DefaultMaxAttempts - 1
    /\ rt.thrown = obs.lastFnError

\* C18: after the n-th failed attempt, with an error that is not of the
\* transient-network class, retry waits delay + jitter with
\* delay = min(base * 2^(n-1), max) and 0 <= jitter <= 0.3 * delay: the wait is
\* within [delay, 1.3 * delay] and never above 1.3 * max.
C18_WaitWithinJitterBand ==
  (rt.bound /\ rt.pc = "sleep" /\ ~IsConnectionError(rt.lastError)) =>
    LET n == rt.attempts
        uncapped == rt.initialDelayMs * 2 ^ (n - 1)
        delay == IF uncapped <= rt.maxDelayMs THEN uncapped ELSE rt.maxDelayMs
    IN /\ n >= 1
       /\ rt.wait >= delay
       /\ 10 * (rt.wait - delay) <= 3 * delay
       /\ 10 * rt.wait <= 13 * delay
       /\ 10 * rt.wait <= 13 * rt.maxDelayMs

\* C18 witness: the second failure, an HTTP 500, with base 1000 and max 1500: the
\* delay is capped at 1500 and the largest jitter, 450, was drawn.
C18_Witness_CappedFullJitter ==
  /\ rt.bound /\ rt.pc = "sleep" /\ rt.attempts = 2
  /\ rt.initialDelayMs = 1000 /\ rt.maxDelayMs = 1500
  /\ rt.lastError = HttpErr(500, Undefined) /\ rt.wait = 1950

\* C19 (as claimed): the wait after failure n+1 is at least the wait after failure n
\* as long as base * 2^n <= max, for every jitter and every class of error.
C19_WaitNonDecreasing ==
  [][(/\ rt.bound /\ rt.pc = "call" /\ rt.sleeps >= 1 /\ rt'.pc = "sleep"
      /\ rt.initialDelayMs * 2 ^ rt.attempts <= rt.maxDelayMs)
       => rt'.wait >= rt.wait]_vars

\* C19 (amended): the wait after failure n+1 is at least the wait after failure n
\* as long as base * 2^n <= max, for every jitter and every class of the failure
\* n+1, when failure n is not of the transient-network class.
C19_WaitNonDecreasingAfterPlainError ==
  [][(/\ rt.bound /\ rt.pc = "call" /\ rt.sleeps >= 1 /\ rt'.pc = "sleep"
      /\ rt.initialDelayMs * 2 ^ rt.attempts <= rt.maxDelayMs
      /\ ~IsConnectionError(rt.lastError))
       => rt'.wait >= rt.wait]_vars

\* C19 witness: base 10, max 45; the first failure, an HTTP 500, was followed by
\* the longest wait it can have (13), the second by the shortest (20).
C19_Witness_SecondWaitLonger ==
  /\ rt.bound /\ rt.pc = "sleep" /\ rt.sleeps = 2 /\ rt.initialDelayMs = 10
  /\ obs.prevError = HttpErr(500, Undefined) /\ obs.prevWait = 13
  /\ ~IsConnectionError(rt.lastError) /\ rt.wait = 20

\* The transient-network class: the message contains one of the four substrings.
TransientNetwork(error) ==
  \E part \in {"ECONNRESET", "ETIMEDOUT", "socket hang up", "network error"} :
    Contains(error.message, part)

\* C29: when the error of the n-th failed attempt is of the transient-network class
\* the delay retry computes is min(2 * min(base * 2^(n-1), max), max); for any other
\* error it is min(base * 2^(n-1), max); the jitter is drawn from the delay so
\* computed: 0 <= wait - delay <= 0.3 * delay.
C29_ConnectionErrorDoublesDelay ==
  (rt.bound /\ rt.pc = "sleep") =>
    LET n == rt.attempts
        plain == Min({rt.initialDelayMs * 2 ^ (n - 1), rt.maxDelayMs})
        doubled == Min({2 * plain, rt.maxDelayMs})
    IN /\ n >= 1
       /\ rt.delay = IF TransientNetwork(rt.lastError) THEN doubled ELSE plain
       /\ rt.wait >= rt.delay
       /\ 10 * (rt.wait - rt.delay) <= 3 * rt.delay

\* C29 witness: base 10, max 45; a connection reset and then a socket hang up: the
\* second delay is min(2 * 20, 45) = 40 and the largest jitter, 12, was drawn.
C29_Witness_SecondDelayDoubled ==
  /\ rt.bound /\ rt.pc = "sleep" /\ rt.attempts = 2
  /\ rt.initialDelayMs = 10 /\ rt.maxDelayMs = 45
  /\ obs.prevError = NetErr("read ECONNRESET") /\ obs.prevWait >= 20
  /\ rt.lastError = NetErr("socket hang up") /\ rt.delay = 40 /\ rt.wait = 52

\* C20: with an empty allow-list retry gives up only when its attempts are used
\* up, whatever the errors; with a non-empty allow-list a failure whose message
\* contains none of the listed substrings is raised to the caller at once: the
\* error thrown is that failure's, no sleep follows it and fn is not invoked again.
C20_RetryEligibility ==
  (rt.bound /\ rt.maxAttempts >= 1) =>
    /\ (rt.retryableErrors = {} /\ rt.pc = "thrown") =>
          /\ rt.calls = rt.maxAttempts /\ rt.sleeps = rt.maxAttempts - 1
          /\ rt.thrown = rt.lastError
    /\ (rt.retryableErrors = {} /\ rt.pc = "sleep") => rt.calls < rt.maxAttempts
    /\ (/\ rt.retryableErrors # {} /\ rt.lastError # NoError /\ rt.pc # "returned"
        /\ \A m \in rt.retryableErrors : ~Includes(rt.lastError.message, m)) =>
          /\ rt.pc = "thrown" /\ rt.thrown = rt.lastError
          /\ rt.calls = rt.attempts /\ rt.sleeps = rt.attempts - 1

\* C20 witness: with the gateway's allow-list, a socket hang up was retried and the
\* HTTP 500 that followed was raised at once, with attempts to spare.
C20_Witness_RaisedAtOnce ==
  /\ rt.bound /\ rt.op = "fn" /\ rt.retryableErrors = GatewayRetryable
  /\ rt.maxAttempts = 3 /\ rt.pc = "thrown" /\ rt.calls = 2 /\ rt.sleeps = 1
  /\ obs.prevError = NetErr("socket hang up") /\ rt.thrown = HttpErr(500, Undefined)

\* A remote error that is neither of the transient-network class nor "already
\* completed": the remote answered, with a status the gateway does not normalise.
Unexpected(error) ==
  /\ error \in HttpErrors
  /\ ~(error.status = 400 /\ error.dataMessage = AlreadyCompletedMsg)
  /\ \A m \in GatewayRetryable : ~Includes(error.message, m)

\* C21 (as claimed): for quest submission through the gateway, an
\* application-unexpected remote error is retried up to the configured attempt cap
\* and only then surfaced to the calling phase.
C21_UnexpectedRetriedToCap ==
  (rt.op = "completeQuest" /\ rt.pc = "thrown" /\ Unexpected(rt.thrown)) =>
    rt.calls = rt.maxAttempts

\* C21 (amended): for quest submission through the gateway, an
\* application-unexpected remote error is not retried: the attempt that met it
\* surfaces it to the calling phase, with no sleep and no further request, whatever
\* attempt cap is configured.
C21_UnexpectedSurfacedAtOnce ==
  (rt.op = "completeQuest" /\ Unexpected(rt.lastError)) =>
    /\ rt.pc = "thrown" /\ rt.thrown = rt.lastError
    /\ rt.calls = rt.attempts /\ rt.sleeps = rt.attempts - 1
    /\ obs.lastFnError = rt.lastError

\* C21 witness: with the default cap of 5, the first request met a socket hang up
\* and was retried, the second an HTTP 500, which was raised with three attempts
\* to spare.
C21_Witness_RaisedAtSecondRequest ==
  /\ rt.op = "completeQuest" /\ rt.api = ApiNamespaced /\ rt.retries = NoRetries
  /\ rt.maxAttempts = DefaultMaxAttempts /\ rt.pc = "thrown" /\ rt.calls = 2
  /\ obs.prevError = NetErr("socket hang up") /\ rt.thrown = HttpErr(500, Undefined)

(***************************************************************************)
(* withTimeout(promise, timeoutMs, errorMessage): Promise.race of the      *)
(* wrapped promise and a timer.  The race settles with whichever settles   *)
(* first; the loser still settles later and changes nothing.               *)
(***************************************************************************)
Never == -1

\* errorMessage || `Operation timed out after ${timeoutMs}ms`
TimeoutMessage(timeoutMs, errorMessage) ==
  IF errorMessage = "" THEN "Operation timed out after " \o ToString(timeoutMs) \o "ms"
  ELSE errorMessage

TimeoutError(timeoutMs, errorMessage) == NetErr(TimeoutMessage(timeoutMs, errorMessage))

Pending == [settled |-> FALSE, at |-> Never, outcome |-> Rejected(NoError)]
SettledAt(at, outcome) == [settled |-> TRUE, at |-> at, outcome |-> outcome]

\* A race in which the last settlement replaces the result.
RaceLastWins(result, at, outcome) == SettledAt(at, outcome)

\* Promise.race: the first settlement is the result, later ones are ignored.
Race(result, at, outcome) == IF result.settled THEN result ELSE SettledAt(at, outcome)

\* A withTimeout call made at time 0 on a promise that settles at opAt (or Never).
WithTimeoutStart(opAt, opOutcome, timeoutMs, errorMessage) ==
  [pc |-> "racing", now |-> 0, timeoutMs |-> timeoutMs, errorMessage |-> errorMessage,
   opAt |-> opAt, opOutcome |-> opOutcome, opSettled |-> FALSE, timerFired |-> FALSE,
   result |-> Pending]

\* A withTimeout that starts no timer.
WithTimeoutResultsNoTimer(opAt, opOutcome, timeoutMs, errorMessage) ==
  IF opAt = Never THEN {} ELSE {SettledAt(opAt, opOutcome)}

\* The results a withTimeout call can deliver: [at, outcome].
WithTimeoutResults(opAt, opOutcome, timeoutMs, errorMessage) ==
  (IF opAt # Never /\ opAt <= timeoutMs THEN {SettledAt(opAt, opOutcome)} ELSE {})
  \cup
  (IF opAt = Never \/ opAt >= timeoutMs
     THEN {SettledAt(timeoutMs, Rejected(TimeoutError(timeoutMs, errorMessage)))}
     ELSE {})

MaxOpAt == 20000
TimeoutChoices == {10000, 15000}
OpTimes == {0, 3000, 10000, 12000, 15000, MaxOpAt, Never}
TimeoutMessages == {"", "Getting quests timed out after 10s"}
OpOutcomes ==
  {Resolved([data |-> <<>>]), Rejected(NetErr("socket hang up")), Rejected(TypeErrorThis)}

InitTimeout ==
  /\ IdleRetry /\ IdleQuest /\ IdleMine /\ IdleAccount /\ IdleProxy /\ IdleBot /\ IdlePlay /\ IdleGateway
  /\ \E opAt \in OpTimes, o \in OpOutcomes, t \in TimeoutChoices, m \in TimeoutMessages :
       wt = WithTimeoutStart(opAt, o, t, m)

\* The wrapped promise settles.
WtOpSettles ==
  /\ wt.pc = "racing" /\ ~wt.opSettled /\ wt.opAt # Never
  /\ wt.timerFired \/ wt.opAt <= wt.timeoutMs
  /\ wt' = [wt EXCEPT !.now = wt.opAt, !.opSettled = TRUE,
                      !.result = Race(wt.result, wt.opAt, wt.opOutcome)]
  /\ UNCHANGED othersTimeout

\* The setTimeout callback runs: reject(new Error(...)).
WtTimerFires ==
  /\ wt.pc = "racing" /\ ~wt.timerFired
  /\ wt.opSettled \/ wt.opAt = Never \/ wt.timeoutMs <= wt.opAt
  /\ wt' = [wt EXCEPT !.now = wt.timeoutMs, !.timerFired = TRUE,
                      !.result = Race(wt.result, wt.timeoutMs,
                                      Rejected(TimeoutError(wt.timeoutMs, wt.errorMessage)))]
  /\ UNCHANGED othersTimeout

NextTimeout == WtOpSettles \/ WtTimerFires

SpecTimeout == InitTimeout /\ [][NextTimeout]_vars

\* C6: withTimeout(op, T, msg): when op has not settled by T (it settles later or
\* never), the result is a rejection carrying msg, delivered at T, and op's later
\* settlement does not change it; when op settles before T the result is op's own
\* outcome, delivered when op settles, and the timer's later expiry does not change it.
C6_WithTimeoutRace ==
  wt.pc = "racing" =>
    /\ (wt.timerFired /\ (wt.opAt = Never \/ wt.opAt > wt.timeoutMs)) =>
         wt.result =
           SettledAt(wt.timeoutMs,
                     Rejected(NetErr(IF wt.errorMessage = ""
                                       THEN "Operation timed out after "
                                              \o ToString(wt.timeoutMs) \o "ms"
                                       ELSE wt.errorMessage)))
    /\ (wt.opSettled /\ wt.opAt < wt.timeoutMs) =>
         wt.result = SettledAt(wt.opAt, wt.opOutcome)
    /\ wt.result.settled <=> (wt.opSettled \/ wt.timerFired)

\* C6 witness: the wrapped promise resolved at 12 s, after the 10 s timer had already
\* rejected the race with the caller's message.
C6_Witness_LateSettle ==
  /\ wt.pc = "racing" /\ wt.timeoutMs = 10000 /\ wt.opAt = 12000
  /\ wt.opSettled /\ wt.timerFired /\ wt.opOutcome.ok
  /\ wt.result.at = 10000 /\ ~wt.result.outcome.ok
  /\ wt.result.outcome.error.message = "Getting quests timed out after 10s"

DiceTitle == "Daily Dice Roll"
DiceQuest == [id |-> "q-dice", title |-> DiceTitle]
OldDiceQuest == [id |-> "q-dice-old", title |-> DiceTitle]
FollowQuest == [id |-> "q-follow", title |-> "Follow on X"]
QuestCatalog == {DiceQuest, OldDiceQuest, FollowQuest}

\* An instant of March 2025, in UTC: new Date().
Instant(day, hour, minute) == [day |-> day, hour |-> hour, minute |-> minute]

Pad2(n) == IF n < 10 THEN "0" \o ToString(n) ELSE ToString(n)

\* date.toISOString(), to the minute
ToISOString(t) ==
  "2025-03-" \o Pad2(t.day) \o "T" \o Pad2(t.hour) \o ":" \o Pad2(t.minute) \o ":00.000Z"

\* The calendar date of an instant on a host five hours west of Greenwich.
TodayLocal(clock) ==
  SubSeq(ToISOString(IF clock.hour < 5 THEN Instant(clock.day - 1, clock.hour + 19, clock.minute)
                     ELSE Instant(clock.day, clock.hour - 5, clock.minute)), 1, 10)

\* new Date().toISOString().split('T')[0]
Today(clock) == SubSeq(ToISOString(clock), 1, 10)

\* The instants at which the history is checked: 00:01 and 23:58 UTC of the 14th.
Clocks == {Instant(14, 0, 1), Instant(14, 23, 58)}

TodayStamp == "2025-03-14T08:15:00.000Z"
YesterdayStamp == "2025-03-13T23:59:59.000Z"

\* q.createdAt.startsWith(today)
StartsWith(createdAt, today) ==
  Len(createdAt) >= Len(today) /\ SubSeq(createdAt, 1, Len(today)) = today

\* quests.find(q => q.title === 'Daily Dice Roll'): the first match, or <<>>.
RECURSIVE Find(_, _)
Find(quests, title) ==
  IF quests = <<>> THEN <<>>
  ELSE IF Head(quests).title = title THEN <<Head(quests)>>
  ELSE Find(Tail(quests), title)

\* A response body: `shape` tells whether the body is an object with a data list
\* ("list"), an object without data ("nodata"), or not an object ("undefined").
Body(shape, quests, records) == [shape |-> shape, quests |-> quests, records |-> records]

\* The body of userQuestsResponse.some(...), which throws on a body it cannot read.
HistoryScan(body, questId, today) ==
  IF body.shape = "undefined"
    THEN [thrown |-> TRUE, value |-> FALSE]
    ELSE [thrown |-> FALSE,
          value |-> \E q \in (IF body.shape = "list" THEN body.records ELSE {}) :
                      /\ q.questId = questId
                      /\ q.status \in {"COMPLETED", "CLAIMED"}
                      /\ q.createdAt # Null
                      /\ StartsWith(q.createdAt, today)]

\* A check that reports "completed" when the history cannot be fetched.
IsQuestCompletedTodayFailClosed(r, questId, today) ==
  [raised |-> FALSE,
   value |-> IF ~r.outcome.ok THEN TRUE
             ELSE HistoryScan(r.outcome.value, questId, today).value]

\* _isQuestCompletedToday: r is the result of withTimeout(getUserQuests(), 10000).
IsQuestCompletedToday(r, questId, today) ==
  IF ~r.outcome.ok
    THEN [raised |-> FALSE, value |-> FALSE]
    ELSE LET scan == HistoryScan(r.outcome.value, questId, today)
         IN IF scan.thrown
              THEN [raised |-> FALSE, value |-> FALSE]
              ELSE [raised |-> FALSE, value |-> scan.value]

NullResult == [isNull |-> TRUE, rec |-> QData(Undefined, Undefined, Undefined, Absent, Absent, Undefined)]
Result(rec) == [isNull |-> FALSE, rec |-> rec]

\* { questId, status: 'COMPLETED', message: 'Quest already completed' }
AlreadyCompletedRecord(questId) ==
  Result(QData(questId, "COMPLETED", AlreadyCompletedMsg, Absent, Absent, Undefined))

GetQuestsTimeoutMs == 10000
UserQuestsTimeoutMs == 10000
RollTimeoutMs == 15000
DiceTimeoutMs == 60000
DiceOverallMs == 60000
QuestTimeoutMs == 90000
QuestSupervisorMs == 90000

\* The metadata of a quest action: {} and { action: 'ROLL' }.
EmptyMetadata == "{}"
RollMetadata == "{action:'ROLL'}"

\* completeDailyDiceRoll returns `result`.
DiceReturn(q, now, result) == [q EXCEPT !.pc = "diceSettled", !.now = now, !.dice = result]

\* completeQuests() entered: the dice roll is started when it is enabled.
\* `minigame` is config.quests.minesweeper.enabled, which completeQuests never reads.
QuestStart(api, enabled, minigame, clock) ==
  [api |-> api, enabled |-> enabled, minigame |-> minigame, clock |-> clock,
   pc |-> IF enabled THEN "getQuests" ELSE "skipped", metadata |-> Undefined,
   now |-> 0, start |-> 0, questId |-> Undefined, isCompleted |-> FALSE,
   historyFetch |-> "none", history |-> Body("undefined", <<>>, {}),
   submits |-> 0, dice |-> NullResult, raised |-> FALSE, completedQuests |-> <<>>,
   normalized |-> FALSE, diceTimedOut |-> FALSE, questError |-> ""]

\* completeDailyDiceRoll resumes from await withTimeout(this.api.getQuests(), 10000).
DiceAfterGetQuests(q, r) ==
  LET now == q.now + r.at
      body == r.outcome.value
      quests == IF body.shape = "list" THEN body.quests ELSE <<>>
      found == Find(quests, DiceTitle)
  IN IF ~r.outcome.ok THEN DiceReturn(q, now, NullResult)
     ELSE IF body.shape = "undefined" THEN DiceReturn(q, now, NullResult)
     ELSE IF now - q.start > DiceOverallMs - 5000 THEN DiceReturn(q, now, NullResult)
     ELSE IF found = <<>> THEN DiceReturn(q, now, NullResult)
     ELSE [q EXCEPT !.pc = "history", !.now = now, !.questId = found[1].id]

UserQuestsTimeoutMsg == "Getting user quests timed out after 10s"

\* How the history fetch ended, as the caller of withTimeout sees it.
FetchKind(r) ==
  IF r.outcome.ok THEN "ok"
  ELSE IF r.outcome.error.message = UserQuestsTimeoutMsg THEN "timeout"
  ELSE "failed"

\* A dice roll that submits the quest whatever the history shows.
DiceAfterHistoryAlwaysRoll(q, r) ==
  [q EXCEPT !.pc = "roll", !.now = q.now + r.at, !.historyFetch = FetchKind(r),
            !.history = IF r.outcome.ok THEN r.outcome.value ELSE q.history,
            !.isCompleted = IsQuestCompletedToday(r, q.questId, Today(q.clock)).value,
            !.submits = q.submits + 1, !.metadata = EmptyMetadata]

\* completeDailyDiceRoll resumes from await this._isQuestCompletedToday(id); when
\* the quest is not completed it calls this.api.completeQuest(id, {}).
DiceAfterHistory(q, r) ==
  LET check == IsQuestCompletedToday(r, q.questId, Today(q.clock))
      seen == [q EXCEPT !.now = q.now + r.at, !.historyFetch = FetchKind(r),
                        !.history = IF r.outcome.ok THEN r.outcome.value ELSE q.history,
                        !.isCompleted = check.value, !.raised = check.raised]
  IN IF check.raised THEN DiceReturn(seen, seen.now, NullResult)
     ELSE IF check.value THEN DiceReturn(seen, seen.now, AlreadyCompletedRecord(q.questId))
     ELSE [seen EXCEPT !.pc = "roll", !.submits = q.submits + 1,
                       !.metadata = EmptyMetadata]

\* A submission awaited without a deadline of its own.
RollUnsupervised(opAt, opOutcome) ==
  IF opAt = Never THEN {} ELSE {SettledAt(opAt, opOutcome)}

\* withTimeout(rollPromise, 15000, `Dice roll timed out after 15s`)
RollSupervised(opAt, opOutcome) ==
  WithTimeoutResults(opAt, opOutcome, RollTimeoutMs, "Dice roll timed out after 15s")

\* completeDailyDiceRoll resumes from await withTimeout(rollPromise, 15000).
DiceAfterRoll(q, r) ==
  LET now == q.now + r.at
  IN IF r.outcome.ok
       THEN DiceReturn([q EXCEPT !.normalized = r.outcome.value = AlreadyCompletedResult(q.api)],
                       now, Result(r.outcome.value.data))
     ELSE IF r.outcome.error.dataMessage = AlreadyCompletedMsg
       THEN DiceReturn(q, now, AlreadyCompletedRecord(q.questId))
     ELSE DiceReturn(q, now, NullResult)

\* completeQuests resumes from await withTimeout(diceRollPromise, 60000).
CompleteQuestsCollect(q, r) ==
  [q EXCEPT !.pc = "done", !.now = q.start + r.at, !.diceTimedOut = ~r.outcome.ok,
            !.completedQuests =
              IF r.outcome.ok /\ ~r.outcome.value.isNull
                THEN Append(q.completedQuests, r.outcome.value.rec)
                ELSE q.completedQuests]

\* run() resumes from await withTimeout(questsPromise, 90000): the catch records
\* the rejection in result.questError.
RunAfterQuests(q, r) ==
  [q EXCEPT !.pc = "runSettled", !.now = q.start + r.at,
            !.questError = IF r.outcome.ok THEN "" ELSE r.outcome.error.message]

\* The errors a gateway method can reject with: what the closure throws on a
\* request error, as the retry loop of that ApiClient passes it on.
ClosureErrors(api, op) ==
  {GatewayFn(api, op, Rejected(e)).error :
     e \in {x \in RequestErrors : ~GatewayFn(api, op, Rejected(x)).ok}}

ApiThrown(api, op) ==
  LET first(e) == RetryAfterFailure(GatewayStart(api, op, NoRetries), e, 0)
  IN {first(e).thrown : e \in {x \in ClosureErrors(api, op) : first(x).pc = "thrown"}}
     \cup (IF \E e \in ClosureErrors(api, op) : first(e).pc = "sleep"
             THEN ClosureErrors(api, op) ELSE {})

MaxHistory == 2
HistoryRecords ==
  [questId : {"q-dice", "q-follow"}, status : {"COMPLETED", "CLAIMED", "PENDING"},
   createdAt : {TodayStamp, YesterdayStamp, Null}]
Histories == {h \in SUBSET HistoryRecords : Cardinality(h) <= MaxHistory}
QuestLists ==
  {<<>>} \cup {<<a>> : a \in QuestCatalog} \cup {<<a, b>> : a \in QuestCatalog, b \in QuestCatalog}

ApiDurations == {200, 10000, 15000, 40000}

GetQuestsOutcomes(api) ==
  {Resolved(Body("list", l, {})) : l \in QuestLists}
  \cup {Resolved(Body("nodata", <<>>, {})), Resolved(Body("undefined", <<>>, {}))}
  \cup {Rejected(e) : e \in ApiThrown(api, "getQuests")}

GetUserQuestsOutcomes(api) ==
  {Resolved(Body("list", <<>>, h)) : h \in Histories}
  \cup {Resolved(Body("nodata", <<>>, {})), Resolved(Body("undefined", <<>>, {}))}
  \cup {Rejected(e) : e \in ApiThrown(api, "getUserQuests")}

CompleteQuestOutcomes(api) ==
  {Resolved([data |-> QData("q-dice", "COMPLETED", Undefined, Some(c), Absent, Undefined)]) :
     c \in {0, 12}}
  \cup {Resolved(AlreadyCompletedResult(api))}
  \cup {Rejected(e) : e \in ApiThrown(api, "completeQuest")}

InitQuest ==
  /\ IdleRetry /\ IdleTimeout /\ IdleMine /\ IdleAccount /\ IdleProxy /\ IdleBot /\ IdlePlay /\ IdleGateway
  /\ \E api \in ApiVariants, enabled \in BOOLEAN, minigame \in BOOLEAN, clock \in Clocks :
       qs = QuestStart(api, enabled, minigame, clock)

QsGetQuests ==
  /\ qs.pc = "getQuests"
  /\ \E resp \in GetQuestsOutcomes(qs.api), d \in ApiDurations :
       \E r \in WithTimeoutResults(d, resp, GetQuestsTimeoutMs,
                                   "Getting quests timed out after 10s") :
         qs' = DiceAfterGetQuests(qs, r)
  /\ UNCHANGED othersQuest

QsCheckHistory ==
  /\ qs.pc = "history"
  /\ \E resp \in GetUserQuestsOutcomes(qs.api), d \in ApiDurations :
       \E r \in WithTimeoutResults(d, resp, UserQuestsTimeoutMs, UserQuestsTimeoutMsg) :
         qs' = DiceAfterHistory(qs, r)
  /\ UNCHANGED othersQuest

QsRoll ==
  /\ qs.pc = "roll"
  /\ \E resp \in CompleteQuestOutcomes(qs.api), d \in ApiDurations :
       \E r \in RollSupervised(d, resp) : qs' = DiceAfterRoll(qs, r)
  /\ UNCHANGED othersQuest

QsCollect ==
  /\ qs.pc = "diceSettled"
  /\ \E r \in WithTimeoutResults(qs.now - qs.start, Resolved(qs.dice), DiceTimeoutMs,
                                 "Daily dice roll timed out after 60s") :
       qs' = CompleteQuestsCollect(qs, r)
  /\ UNCHANGED othersQuest

\* daily_dice_roll disabled: completeQuests returns the empty list.
QsSkipDisabled ==
  /\ qs.pc = "skipped"
  /\ qs' = [qs EXCEPT !.pc = "done"]
  /\ UNCHANGED othersQuest

\* completeQuests has returned its list: the 90 s race of run() settles.
QsRunSettles ==
  /\ qs.pc = "done"
  /\ \E r \in WithTimeoutResults(qs.now - qs.start, Resolved(qs.completedQuests),
                                 QuestSupervisorMs,
                                 "Quest completion timed out for account 1") :
       qs' = RunAfterQuests(qs, r)
  /\ UNCHANGED othersQuest

NextQuest ==
  QsGetQuests \/ QsCheckHistory \/ QsRoll \/ QsCollect \/ QsSkipDisabled \/ QsRunSettles

SpecQuest == InitQuest /\ [][NextQuest]_vars

HistoryChecked == qs.pc \in {"roll", "diceSettled", "done"} /\ qs.historyFetch # "none"

(***************************************************************************)
(* The QuestService of services/quest.js, which index.js runs: its         *)
(* completeDailyDiceRoll rolls up to config.quests.daily_dice_roll.rolls   *)
(* times.  completeQuests and _isQuestCompletedToday are as above.         *)
(***************************************************************************)
DefaultRolls == 5
MinRollDelayMs == 3000
MaxRollDelayMs == 6000

\* this.config.quests.daily_dice_roll.rolls || 5
MaxRolls(rolls) == OrDefault(rolls, DefaultRolls)

LegacyQuestStart(api, clock, rolls) ==
  QuestStart(api, TRUE, FALSE, clock) @@ [rolls |-> rolls, i |-> 0, lastRoll |-> NullResult]

LegacyAfterGetQuests(q, r) ==
  LET now == q.now + r.at
      body == r.outcome.value
      quests == IF body.shape = "list" THEN body.quests ELSE <<>>
      found == Find(quests, DiceTitle)
  IN IF ~r.outcome.ok THEN DiceReturn(q, now, NullResult)
     ELSE IF body.shape = "undefined" THEN DiceReturn(q, now, NullResult)
     ELSE IF now - q.start > DiceOverallMs THEN DiceReturn(q, now, NullResult)
     ELSE IF found = <<>> THEN DiceReturn(q, now, NullResult)
     ELSE [q EXCEPT !.pc = "history", !.now = now, !.questId = found[1].id]

\* Past the loop: return lastRoll, or null.
LegacyFinish(q) == DiceReturn(q, q.now, q.lastRoll)

\* this.api.completeQuest(diceRollQuest.id, { action: 'ROLL' }) is called.
LegacySubmit(q) ==
  [q EXCEPT !.pc = "roll", !.submits = q.submits + 1, !.metadata = RollMetadata]

\* for (let i = 0; i < maxRolls; i++): the test, the time check and the delay.
LegacyRollHead(q) ==
  IF q.i >= MaxRolls(q.rolls) THEN LegacyFinish(q)
  ELSE IF q.now - q.start > DiceOverallMs THEN DiceReturn(q, q.now, q.lastRoll)
  ELSE IF q.i > 0 THEN [q EXCEPT !.pc = "rollDelay"]
  ELSE LegacySubmit(q)

\* await RetryUtils.sleep(delay) is over.
LegacyAfterDelay(q, delay) == LegacySubmit([q EXCEPT !.now = q.now + delay])

LegacyAfterHistory(q, r) ==
  LET check == IsQuestCompletedToday(r, q.questId, Today(q.clock))
      seen == [q EXCEPT !.now = q.now + r.at, !.historyFetch = FetchKind(r),
                        !.history = IF r.outcome.ok THEN r.outcome.value ELSE q.history,
                        !.isCompleted = check.value, !.raised = check.raised]
  IN IF check.value THEN DiceReturn(seen, seen.now, AlreadyCompletedRecord(q.questId))
     ELSE LegacyRollHead(seen)

\* await RetryUtils.withTimeout(rollPromise, 15000) settled.
LegacyAfterRoll(q, r) ==
  LET at == [q EXCEPT !.now = q.now + r.at]
      next == [at EXCEPT !.i = q.i + 1]
  IN IF r.outcome.ok
       THEN LET rolled == [at EXCEPT !.lastRoll = Result(r.outcome.value.data)]
            IN IF r.outcome.value.data.status = "COMPLETED" THEN LegacyFinish(rolled)
               ELSE LegacyRollHead([rolled EXCEPT !.i = q.i + 1])
     ELSE IF r.outcome.error.dataMessage = AlreadyCompletedMsg
       THEN DiceReturn(at, at.now, AlreadyCompletedRecord(q.questId))
     ELSE IF at.now - q.start > DiceOverallMs - 5000 THEN LegacyFinish(at)
     ELSE LegacyRollHead(next)

RollsConfigs == {0, 2}
RollDurations == {200, 15000}
FetchDurations == {200, 10000}
LegacyQuestsOutcomes(api) ==
  {Resolved(Body("list", l, {})) : l \in {<<>>, <<DiceQuest>>, <<FollowQuest, DiceQuest>>}}
  \cup {Rejected(e) : e \in ApiThrown(api, "getQuests")}
LegacyHistoryOutcomes(api) ==
  {Resolved(Body("list", <<>>, h)) : h \in {x \in Histories : Cardinality(x) <= 1}}
  \cup {Rejected(e) : e \in ApiThrown(api, "getUserQuests")}
RollOutcomes(api) ==
  CompleteQuestOutcomes(api)
  \cup {Resolved([data |-> QData("q-dice", "PENDING", Undefined, Absent, Some(3), Undefined)])}

InitQuestLegacy ==
  /\ IdleRetry /\ IdleTimeout /\ IdleMine /\ IdleAccount /\ IdleProxy /\ IdleBot /\ IdlePlay
  /\ IdleGateway
  /\ \E api \in ApiVariants, clock \in Clocks, rolls \in RollsConfigs :
       qs = LegacyQuestStart(api, clock, rolls)

LqGetQuests ==
  /\ qs.pc = "getQuests"
  /\ \E resp \in LegacyQuestsOutcomes(qs.api), d \in FetchDurations :
       \E r \in WithTimeoutResults(d, resp, GetQuestsTimeoutMs,
                                   "Getting quests timed out after 10s") :
         qs' = LegacyAfterGetQuests(qs, r)
  /\ UNCHANGED othersQuest

LqCheckHistory ==
  /\ qs.pc = "history"
  /\ \E resp \in LegacyHistoryOutcomes(qs.api), d \in FetchDurations :
       \E r \in WithTimeoutResults(d, resp, UserQuestsTimeoutMs, UserQuestsTimeoutMsg) :
         qs' = LegacyAfterHistory(qs, r)
  /\ UNCHANGED othersQuest

LqRoll ==
  /\ qs.pc = "roll"
  /\ \E resp \in RollOutcomes(qs.api), d \in RollDurations :
       \E r \in WithTimeoutResults(d, resp, RollTimeoutMs, "Roll timed out after 15s") :
         qs' = LegacyAfterRoll(qs, r)
  /\ UNCHANGED othersQuest

LqDelayDone ==
  /\ qs.pc = "rollDelay"
  /\ \E delay \in {MinRollDelayMs, MaxRollDelayMs} : qs' = LegacyAfterDelay(qs, delay)
  /\ UNCHANGED othersQuest

NextQuestLegacy == LqGetQuests \/ LqCheckHistory \/ LqRoll \/ LqDelayDone \/ QsCollect

SpecQuestLegacy == InitQuestLegacy /\ [][NextQuestLegacy]_vars

\* completeDailyDiceRoll has returned after finding the quest not completed today.
RolledAndReturned ==
  /\ qs.pc \in {"diceSettled", "done"} /\ qs.questId # Undefined
  /\ qs.historyFetch # "none" /\ ~qs.isCompleted

\* C28 (as claimed): when the daily reward quest exists and is not completed today,
\* completeDailyDiceRoll submits exactly one quest action, with empty metadata, per
\* call, and what it returns is that action's result when the action succeeded.
C28_OneEmptySubmission ==
  RolledAndReturned =>
    /\ qs.submits = 1
    /\ qs.metadata = EmptyMetadata

\* The completeDailyDiceRoll of services/QuestService.js does submit once, with {}.
NewServiceRollsOnce ==
  RolledAndReturned =>
    /\ qs.submits = 1 /\ qs.metadata = EmptyMetadata
    /\ qs.dice.isNull \/ qs.dice.rec.status # Undefined

\* C35 (as claimed): when the gateway answers the submission with its "already
\* completed" normalization, completeDailyDiceRoll returns the record of the
\* completed-today path: the quest's questId, status COMPLETED and the message
\* 'Quest already completed'.
C35_NormalizedGivesSyntheticRecord ==
  (qs.pc \in {"diceSettled", "done"} /\ qs.normalized) =>
    /\ qs.dice = AlreadyCompletedRecord(qs.questId)
    /\ qs.dice.rec.questId = qs.questId

\* C8: when the fetched history holds a record of the daily dice quest with status
\* COMPLETED or CLAIMED created today, completeDailyDiceRoll submits nothing, and
\* completeQuests returns exactly one record: that quest, status COMPLETED, no credits.
C8_CompletedTodayNotResubmitted ==
  (/\ HistoryChecked /\ qs.historyFetch = "ok" /\ qs.history.shape = "list"
   /\ \E q \in qs.history.records :
        /\ q.questId = qs.questId /\ q.status \in {"COMPLETED", "CLAIMED"}
        /\ q.createdAt = TodayStamp) =>
    /\ qs.submits = 0
    /\ qs.pc # "roll"
    /\ qs.dice = Result(QData(qs.questId, "COMPLETED", AlreadyCompletedMsg,
                              Absent, Absent, Undefined))
    /\ qs.pc = "done" =>
         /\ Len(qs.completedQuests) = 1
         /\ qs.completedQuests[1].status = "COMPLETED"
         /\ qs.completedQuests[1].questId = qs.questId
         /\ OrZero(qs.completedQuests[1].credits) = 0

\* C8 witness: the history shows the dice quest CLAIMED today and completeQuests has
\* returned the completed record without any submission.
C8_Witness_SkippedToday ==
  /\ qs.pc = "done" /\ qs.historyFetch = "ok" /\ qs.submits = 0
  /\ [questId |-> "q-dice", status |-> "CLAIMED", createdAt |-> TodayStamp]
       \in qs.history.records
  /\ Len(qs.completedQuests) = 1

\* C24: _isQuestCompletedToday(questId) returns true exactly when the fetched
\* history contains a record whose quest id is questId, whose status is COMPLETED
\* or CLAIMED and whose creation timestamp begins with the date part of the current
\* instant's UTC ISO string; a record created on the previous UTC day does not count.
C24_CompletedTodayIsUtcDateMatch ==
  HistoryChecked =>
    (qs.isCompleted <=>
       /\ qs.historyFetch = "ok" /\ qs.history.shape = "list"
       /\ \E q \in qs.history.records :
            /\ q.questId = qs.questId
            /\ q.status \in {"COMPLETED", "CLAIMED"}
            /\ q.createdAt # Null
            /\ SubSeq(q.createdAt, 1, 10) = SubSeq(ToISOString(qs.clock), 1, 10))

\* C24 witness: checked at 00:01 UTC of the 14th, the only record of the dice quest
\* was completed at 23:59 UTC of the 13th: not completed today, and the quest was
\* submitted.
C24_Witness_PreviousUtcDay ==
  /\ HistoryChecked /\ qs.clock = Instant(14, 0, 1) /\ qs.historyFetch = "ok"
  /\ qs.history.records =
       {[questId |-> "q-dice", status |-> "COMPLETED", createdAt |-> YesterdayStamp]}
  /\ qs.questId = "q-dice" /\ ~qs.isCompleted /\ qs.submits = 1

\* C26 (as claimed): when the minigame quest is enabled in the configuration, the
\* quest phase has run MinesweeperService.playGame, after the daily reward, by the
\* time completeQuests returns.
C26_QuestPhaseRunsMinigame ==
  (qs.pc = "done" /\ qs.minigame) => pg.pc # "idle"

\* The longest completeDailyDiceRoll can take: its three supervised calls in a row.
DiceRollLimitMs == GetQuestsTimeoutMs + UserQuestsTimeoutMs + RollTimeoutMs

\* C40: in run() with QuestService.completeQuests the outer quest supervisors never
\* fire: completeDailyDiceRoll returns within 10 s + 10 s + 15 s of its start, so
\* the 60 s daily-reward deadline and the 90 s quest-phase deadline cannot expire
\* first, and no questError is recorded, whatever the remote calls do.
C40_QuestSupervisorsNeverFire ==
  qs.pc # "idle" =>
    /\ qs.now - qs.start <= DiceRollLimitMs
    /\ DiceRollLimitMs < DiceTimeoutMs /\ DiceRollLimitMs < QuestSupervisorMs
    /\ ~qs.diceTimedOut
    /\ qs.questError = ""

\* C40 witness: the catalog answered at its 10 s deadline, the history fetch and the
\* submission both ran into theirs: the quest phase settled after 35 s with the
\* empty list and no questError.
C40_Witness_EveryCallAtItsDeadline ==
  /\ qs.pc = "runSettled" /\ qs.now - qs.start = DiceRollLimitMs
  /\ qs.historyFetch = "timeout" /\ qs.submits = 1 /\ qs.dice = NullResult
  /\ qs.completedQuests = <<>> /\ ~qs.diceTimedOut /\ qs.questError = ""

\* C9: when the history fetch fails or times out after 10 s, _isQuestCompletedToday
\* returns false without raising, and completeDailyDiceRoll goes on to submit the quest.
C9_HistoryFailureFailsOpen ==
  (HistoryChecked /\ qs.historyFetch \in {"failed", "timeout"}) =>
    /\ ~qs.isCompleted
    /\ ~qs.raised
    /\ qs.submits = 1

\* C9 witness: the history fetch timed out and the quest was then submitted and rolled.
C9_Witness_TimedOutThenRolled ==
  /\ qs.pc = "done" /\ qs.historyFetch = "timeout" /\ qs.submits = 1
  /\ Len(qs.completedQuests) = 1 /\ qs.completedQuests[1].credits = Some(12)

(***************************************************************************)
(* MinesweeperService._playOneGame: the local board is whatever the last   *)
(* accepted response carried; a failed move leaves it as it was.           *)
(***************************************************************************)
BoardSize == 2
MaxMoves == 90
MoveDelayMs == 300
Revealed == "revealed"

Coords == 0 .. (BoardSize - 1)
Cells == Coords \X Coords
Boards == [Coords -> [Coords -> {Null, Revealed}]]

\* tiles[y][x] for the cell <<x, y>>
TileAt(tiles, cell) == tiles[cell[2]][cell[1]]
SetTile(tiles, cell, v) == [tiles EXCEPT ![cell[2]][cell[1]] = v]

\* A scan that offers every tile of the board.
EveryTile(tiles) == Cells

\* _findRandomUnexploredTile: the tiles the random pick is made from.
UnexploredTiles(tiles) == {cell \in Cells : tiles[cell[2]][cell[1]] = Null}

\* The boards a server can answer a click on `cell` with: the cell revealed, the
\* cell's whole row revealed, the board as it was, or a board covered again.
ServerBoards(tiles, cell) ==
  {SetTile(tiles, cell, Revealed),
   [tiles EXCEPT ![cell[2]] = [x \in Coords |-> Revealed]],
   tiles,
   [y \in Coords |-> [x \in Coords |-> Null]]}

NoClick == <<>>
EmptyBoard == [y \in Coords |-> [x \in Coords |-> Null]]

\* gameState: response.data, with or without a _minesweeper object.
GameState(hasBoard, tiles, gameOver, exploded) ==
  [hasBoard |-> hasBoard, tiles |-> tiles, gameOver |-> gameOver, exploded |-> exploded]

GameStart ==
  [pc |-> "start", game |-> GameState(FALSE, EmptyBoard, FALSE, FALSE), moveCount |-> 0,
   click |-> NoClick, clickedTile |-> Null, anyFailed |-> FALSE, clicks |-> 0]

\* The START response: a game state, or the throw of "Daily limit reached",
\* "Invalid game response" or the request's own error.
PlayAfterStart(g, resp) ==
  IF resp.ok /\ resp.value.hasBoard
    THEN [g EXCEPT !.pc = "loop", !.game = resp.value]
    ELSE [g EXCEPT !.pc = "raised"]

\* The head of the while loop up to the click request; past the loop the
\* return statement reads gameState._minesweeper, which throws without a board.
PlayLoopHead(g, pick) ==
  IF ~g.game.hasBoard THEN [g EXCEPT !.pc = "raised"]
  ELSE IF g.moveCount >= MaxMoves THEN [g EXCEPT !.pc = "returned"]
  ELSE IF g.game.gameOver THEN [g EXCEPT !.pc = "returned"]
  ELSE IF pick = NoClick THEN [g EXCEPT !.pc = "returned"]
  ELSE [g EXCEPT !.pc = "click", !.moveCount = g.moveCount + 1, !.click = pick,
                 !.clickedTile = TileAt(g.game.tiles, pick)]

\* A catch that gives the failed move back to the budget.
PlayAfterClickUncounted(g, resp) ==
  IF resp.ok
    THEN [g EXCEPT !.pc = "sleep", !.game = resp.value, !.click = NoClick]
    ELSE [g EXCEPT !.pc = "loop", !.anyFailed = TRUE, !.click = NoClick,
                   !.moveCount = g.moveCount - 1]

\* The CLICK response: gameState = moveResponse.data and a 300 ms sleep, or the catch.
PlayAfterClick(g, resp) ==
  IF resp.ok
    THEN [g EXCEPT !.pc = "sleep", !.game = resp.value, !.click = NoClick]
    ELSE [g EXCEPT !.pc = "loop", !.anyFailed = TRUE, !.click = NoClick]

GameFlags == {<<FALSE, FALSE>>, <<TRUE, FALSE>>, <<TRUE, TRUE>>}

InitMine ==
  /\ IdleRetry /\ IdleTimeout /\ IdleQuest /\ IdleAccount /\ IdleProxy /\ IdleBot /\ IdlePlay /\ IdleGateway
  /\ ms = GameStart

MsStart ==
  /\ ms.pc = "start"
  /\ \E resp \in {Resolved(GameState(TRUE, b, f[1], f[2])) : b \in Boards, f \in GameFlags}
                 \cup {Resolved(GameState(FALSE, EmptyBoard, FALSE, FALSE)),
                       Rejected(NetErr("socket hang up"))} :
       ms' = PlayAfterStart(ms, resp)
  /\ UNCHANGED othersMine

MsLoop ==
  /\ ms.pc = "loop"
  /\ LET open == IF ms.game.hasBoard THEN UnexploredTiles(ms.game.tiles) ELSE {}
         Posted(g) == [g EXCEPT !.clicks = IF g.pc = "click" THEN @ + 1 ELSE @]
     IN IF open = {}
          THEN ms' = PlayLoopHead(ms, NoClick)
          ELSE \E pick \in open : ms' = Posted(PlayLoopHead(ms, pick))
  /\ UNCHANGED othersMine

MsClickSettles ==
  /\ ms.pc = "click"
  /\ \E resp \in {Resolved(GameState(TRUE, b, f[1], f[2])) :
                    b \in ServerBoards(ms.game.tiles, ms.click), f \in GameFlags}
                 \cup {Resolved(GameState(FALSE, EmptyBoard, FALSE, FALSE)),
                       Rejected(NetErr("socket hang up"))} :
       ms' = PlayAfterClick(ms, resp)
  /\ UNCHANGED othersMine

MsSleepDone ==
  /\ ms.pc = "sleep"
  /\ ms' = [ms EXCEPT !.pc = "loop"]
  /\ UNCHANGED othersMine

NextMine == MsStart \/ MsLoop \/ MsClickSettles \/ MsSleepDone

SpecMine == InitMine /\ [][NextMine]_vars

\* C10: every cell the player clicks is one its local board, as it stood when
\* the cell was picked, marks unexplored (null); a cell shown as revealed is never
\* clicked, whatever moves were accepted or failed before.
C10_ClicksOnlyUnexplored ==
  ms.pc # "idle" =>
    /\ ms.clickedTile = Null
    /\ ms.pc = "click" => ms.game.tiles[ms.click[2]][ms.click[1]] = Null

\* C10 witness: after accepted and failed moves the player clicks a cell of a board
\* that also shows a revealed cell.
C10_Witness_ClickAfterMoves ==
  /\ ms.pc = "click" /\ ms.moveCount >= 3 /\ ms.anyFailed
  /\ \E cell \in Cells : TileAt(ms.game.tiles, cell) = Revealed

\* A measure of the work one game has left: every step of the game lowers it.
GameRank(g) ==
  CASE g.pc = "start" -> 3 * MaxMoves + 5
    [] g.pc = "loop" -> 3 * (MaxMoves - g.moveCount) + 1
    [] g.pc = "sleep" -> 3 * (MaxMoves - g.moveCount) + 2
    [] g.pc = "click" -> 3 * (MaxMoves - g.moveCount) + 3
    [] OTHER -> 0

\* C11: one game posts at most 90 CLICK requests and then ends: the number of
\* requests posted never exceeds MAX_MOVES, and every step of the game (a pick,
\* an accepted move, a failed move, a sleep) strictly lowers a non-negative
\* measure, so the game returns or raises after finitely many steps whatever the
\* server reports and however many clicks fail.
C11_GameEndsWithinMoveCap ==
  /\ [](ms.pc # "idle" => /\ ms.clicks <= MaxMoves
                          /\ ms.clicks = ms.moveCount
                          /\ GameRank(ms) >= 0)
  /\ [][ms' # ms => GameRank(ms') < GameRank(ms)]_vars

\* C11 witness: the game returned after 90 clicks, some of them failed, with the
\* server never reporting gameOver and unexplored cells still on the board.
C11_Witness_CapReached ==
  /\ ms.pc = "returned" /\ ms.clicks = MaxMoves /\ ms.anyFailed
  /\ ~ms.game.gameOver /\ UnexploredTiles(ms.game.tiles) # {}

(***************************************************************************)
(* MinesweeperService.playGame: the daily cap.  The games played today are *)
(* counted from the user-quest history, fetched once by                    *)
(* _isQuestCompletedToday and once more by playGame itself.                *)
(***************************************************************************)
MaxDailyAttempts == 3
MinesweeperId == "44ec9674-6125-4f88-9e18-8d6d6be8f156"
GameWaitMs == 3000
GameErrorWaitMs == 5000

\* The user-quest history the platform holds when playGame is called.
MaxGameRecords == 4
GameRecords ==
  [questId : {MinesweeperId}, createdAt : {TodayStamp, YesterdayStamp, Null}]
  \cup {[questId |-> "q-dice", createdAt |-> TodayStamp]}
GameHistories == UNION {[1 .. n -> GameRecords] : n \in 0 .. MaxGameRecords}

\* What one getUserQuests() call gives: the history, a body without data, or an error.
HistoryFetches(history) ==
  {Resolved([shape |-> "list", data |-> history]),
   Resolved([shape |-> "nodata", data |-> <<>>]),
   Rejected(NetErr("socket hang up"))}

FetchShape(resp) == IF resp.ok THEN resp.value.shape ELSE "failed"

\* userQuests.filter(q => q.questId === this.MINESWEEPER_ID && q.createdAt &&
\*                        q.createdAt.startsWith(today)).length
RECURSIVE TodayGames(_, _)
TodayGames(userQuests, today) ==
  IF userQuests = <<>> THEN 0
  ELSE (IF /\ Head(userQuests).questId = MinesweeperId
           /\ Head(userQuests).createdAt # Null
           /\ StartsWith(Head(userQuests).createdAt, today)
          THEN 1 ELSE 0) + TodayGames(Tail(userQuests), today)

\* A count that tells only whether a game was played today.
GetGamesPlayedSome(resp, today) ==
  IF ~resp.ok THEN 0 ELSE IF TodayGames(resp.value.data, today) > 0 THEN 1 ELSE 0

\* _getGamesPlayedToday: 0 when the history cannot be fetched.
GetGamesPlayedToday(resp, today) ==
  IF ~resp.ok THEN 0 ELSE TodayGames(resp.value.data, today)

NoGameResult == [credits |-> 0, exploded |-> FALSE, none |-> TRUE]
GameResult(credits, exploded) == [credits |-> credits, exploded |-> exploded, none |-> FALSE]

PlayResult(status, message, totalCredits, attempts, lastResult) ==
  [questId |-> MinesweeperId, status |-> status, message |-> message,
   totalCredits |-> totalCredits, attempts |-> attempts, lastResult |-> lastResult]

\* playGame() is called at `clock` while the platform holds `history`.
PlayGameStart(clock, history) ==
  [pc |-> "isCompleted", clock |-> clock, history |-> history, fetch1 |-> "none",
   fetch2 |-> "none", gamesPlayed |-> 0, remainingGames |-> 0, attempts |-> 0,
   totalCredits |-> 0, lastResult |-> NoGameResult, wait |-> 0,
   completed |-> <<>>, limitHit |-> FALSE,
   result |-> PlayResult(Undefined, Undefined, 0, 0, NoGameResult)]

PlayReturn(p, result) == [p EXCEPT !.pc = "returned", !.result = result]

\* The end of playGame, after the loop.
PlayFinish(p) ==
  PlayReturn(p, PlayResult(Undefined, Undefined, p.totalCredits, p.attempts, p.lastResult))

\* while (attempts < remainingGames) { attempts++; await this._playOneGame() ...
PlayGameLoop(p) ==
  IF p.attempts < p.remainingGames
    THEN [p EXCEPT !.pc = "game", !.attempts = p.attempts + 1]
    ELSE PlayFinish(p)

\* await this._isQuestCompletedToday() settled: gamesPlayed >= 3 means completed.
PlayAfterIsCompleted(p, resp) ==
  LET seen == [p EXCEPT !.fetch1 = FetchShape(resp)]
  IN IF GetGamesPlayedToday(resp, Today(p.clock)) >= 3
       THEN PlayReturn(seen, PlayResult("COMPLETED", "Quest already completed today", 0, 0,
                                        NoGameResult))
       ELSE [seen EXCEPT !.pc = "gamesPlayed"]

\* await this._getGamesPlayedToday() settled: the games left today.
PlayAfterGamesPlayed(p, resp) ==
  LET gamesPlayed == GetGamesPlayedToday(resp, Today(p.clock))
      seen == [p EXCEPT !.fetch2 = FetchShape(resp), !.gamesPlayed = gamesPlayed,
                        !.remainingGames = MaxDailyAttempts - gamesPlayed]
  IN IF seen.remainingGames <= 0
       THEN PlayReturn(seen, PlayResult("COMPLETED", "Daily limit reached", 0, 0, NoGameResult))
       ELSE PlayGameLoop(seen)

\* _playOneGame throws Error("Daily limit reached") when the start response says so.
DailyLimitError(error) == error.message = "Daily limit reached"

\* A catch branch that logs the daily-limit error, sleeps and goes on with the loop.
PlayAfterGameLimitGoesOn(p, outcome) ==
  IF outcome.ok
    THEN [p EXCEPT !.pc = "sleep", !.wait = GameWaitMs, !.lastResult = outcome.value,
                   !.completed = Append(p.completed, outcome.value.credits),
                   !.totalCredits = IF outcome.value.credits > 0
                                      THEN p.totalCredits + outcome.value.credits
                                      ELSE p.totalCredits]
  ELSE [p EXCEPT !.pc = "sleep", !.wait = GameErrorWaitMs,
                 !.limitHit = p.limitHit \/ DailyLimitError(outcome.error)]

\* await this._playOneGame() settled: a result, or a throw.
PlayAfterGame(p, outcome) ==
  IF outcome.ok
    THEN [p EXCEPT !.pc = "sleep", !.wait = GameWaitMs, !.lastResult = outcome.value,
                   !.completed = Append(p.completed, outcome.value.credits),
                   !.totalCredits = IF outcome.value.credits > 0
                                      THEN p.totalCredits + outcome.value.credits
                                      ELSE p.totalCredits]
  ELSE IF Includes(outcome.error.message, "400")
            \/ Includes(outcome.error.message, "Daily limit")
    THEN PlayFinish([p EXCEPT !.limitHit = DailyLimitError(outcome.error)])
  ELSE [p EXCEPT !.pc = "sleep", !.wait = GameErrorWaitMs]

\* The outcomes of one _playOneGame() call.
GameOutcomes ==
  {Resolved(GameResult(5, FALSE)), Resolved(GameResult(0, TRUE))}
  \cup {Rejected(NetErr("Daily limit reached")), Rejected(NetErr("Invalid game response")),
        Rejected(HttpErr(400, "Bad request")), Rejected(NetErr("socket hang up"))}

InitPlay ==
  /\ IdleRetry /\ IdleTimeout /\ IdleQuest /\ IdleMine /\ IdleAccount /\ IdleProxy /\ IdleBot
  /\ IdleGateway
  /\ \E clock \in Clocks, history \in GameHistories : pg = PlayGameStart(clock, history)

PgIsCompletedSettles ==
  /\ pg.pc = "isCompleted"
  /\ \E resp \in HistoryFetches(pg.history) : pg' = PlayAfterIsCompleted(pg, resp)
  /\ UNCHANGED othersPlay

PgGamesPlayedSettles ==
  /\ pg.pc = "gamesPlayed"
  /\ \E resp \in HistoryFetches(pg.history) : pg' = PlayAfterGamesPlayed(pg, resp)
  /\ UNCHANGED othersPlay

PgGameSettles ==
  /\ pg.pc = "game"
  /\ \E outcome \in GameOutcomes : pg' = PlayAfterGame(pg, outcome)
  /\ UNCHANGED othersPlay

PgSleepDone ==
  /\ pg.pc = "sleep"
  /\ pg' = PlayGameLoop(pg)
  /\ UNCHANGED othersPlay

NextPlay == PgIsCompletedSettles \/ PgGamesPlayedSettles \/ PgGameSettles \/ PgSleepDone

SpecPlay == InitPlay /\ [][NextPlay]_vars

\* The records of the minigame in the platform's history that are dated today.
HeldToday ==
  Cardinality({i \in 1 .. Len(pg.history) :
                 /\ pg.history[i].questId = MinesweeperId
                 /\ pg.history[i].createdAt # Null
                 /\ SubSeq(pg.history[i].createdAt, 1, 10)
                      = SubSeq(ToISOString(pg.clock), 1, 10)})

\* What a fetch of the given shape showed of them.
Shown(shape) == IF shape = "list" THEN HeldToday ELSE 0

\* The sum of the credits of the games in `credits`.
RECURSIVE SumCredits(_)
SumCredits(credits) ==
  IF credits = <<>> THEN 0 ELSE Head(credits) + SumCredits(Tail(credits))

\* C36: once starting a game has met the daily-limit error, playGame has returned
\* (no further game is started and nothing is raised), its result is the ordinary
\* end-of-loop record, and that record's totalCredits is the sum of the credits of
\* the games completed before the error.
C36_DailyLimitEndsLoop ==
  pg.limitHit =>
    /\ pg.pc = "returned"
    /\ pg.result.status = Undefined
    /\ pg.result.attempts = pg.attempts
    /\ pg.result.totalCredits = SumCredits(pg.completed)

\* One game earned credits, then the second start met the daily limit with a game left.
C36_Witness_LimitAfterCreditedGame ==
  /\ pg.limitHit
  /\ pg.pc = "returned"
  /\ pg.remainingGames = 3
  /\ pg.attempts = 2
  /\ pg.completed = <<5>>
  /\ pg.result.totalCredits = 5

\* C25 (as claimed): in one playGame call the number of games started is at most 3
\* minus the number of today's history records for the minigame quest id, and no
\* game is started when that count is 3 or more.
C25_DailyCapFromHistory ==
  pg.pc # "idle" =>
    /\ pg.attempts <= 3 - HeldToday \/ pg.attempts = 0
    /\ HeldToday >= 3 => pg.attempts = 0

\* C25 (amended): in one playGame call the number of games started is at most 3
\* minus the number of today's history records for the minigame quest id that the
\* history fetch of playGame returned, a fetch that failed or carried no data
\* counting as none; no game is started when a fetch returned 3 or more of them.
C25_DailyCapFromFetchedHistory ==
  pg.pc # "idle" =>
    /\ pg.attempts <= MaxDailyAttempts
    /\ pg.fetch2 = "none" => pg.attempts = 0
    /\ pg.fetch2 # "none" => (pg.attempts <= 3 - Shown(pg.fetch2) \/ pg.attempts = 0)
    /\ (Shown(pg.fetch1) >= 3 \/ Shown(pg.fetch2) >= 3) =>
         /\ pg.attempts = 0 /\ pg.pc \in {"gamesPlayed", "returned"}
         /\ pg.pc = "returned" => pg.result.status = "COMPLETED"

\* C25 witness: two of the four records are minigame records of today; both
\* fetches returned them and the single game left was played.
C25_Witness_OneGameLeft ==
  /\ pg.pc = "returned" /\ pg.fetch1 = "list" /\ pg.fetch2 = "list"
  /\ Len(pg.history) = 4 /\ HeldToday = 2 /\ pg.attempts = 1
  /\ pg.result.totalCredits = 5

(***************************************************************************)
(* CaptchaService.solve (two solves run in parallel by solveMultiple) and  *)
(* AuthService.authenticate.  Time is in ms; every task waiting on a timer *)
(* or on the network holds the time at which it resumes in `wake`.         *)
(***************************************************************************)
SolveMaxAttempts == 3
MaxAuthAttempts == 3
PollIntervalMs == 3000
SolveBackoffMs == 5000
AuthBackoffMs == 5000
SessionWaitMs == 5000
WalletAddress == "0xA11CE"

\* config.captcha.timeout, in seconds (0: not configured, 120 is used)
CaptchaTimeoutS == 3
ConfigTimeoutS == 120
CaptchaTimeoutMs(timeoutS) == OrDefault(timeoutS, 120) * 1000

\* The time a capsolver request and a gateway call take to settle.
CapLatencyMs == 200
ApiLatencies == {100, 30000}

Solvers == {1, 2}
\* solution.gRecaptchaResponse of a task reported ready
Token == "03AGdBq-token"

SolverIdle ==
  [pc |-> "idle", attempts |-> 0, wake |-> Never, pollStart |-> 0, timeout |-> 0,
   creates |-> 0, errors |-> <<>>, waits |-> <<>>, elapsed |-> 0, raised |-> "",
   token |-> Null]

\* The messages of the errors thrown inside solve.
MissingParamsMsg == "Missing required captcha parameters"
CapsolverErrorMsg == "Capsolver error: [ERROR_KEY_DENIED_ACCESS] denied"
TaskFailedMsg == "Captcha task failed: Unknown error"
SolveTimeoutMsg(timeoutS) ==
  "Captcha solving timeout after " \o ToString(OrDefault(timeoutS, 120)) \o " seconds"

\* How the provider treats one channel during a run: "any" leaves every answer
\* open; the others fix it: createTask refused, status 'failed', status
\* 'processing' for ever, or 'ready' at the first poll.
FixedChannels == {"createError", "failed", "neverReady", "ready"}
CreateOutcomes(channel) ==
  IF channel = "any" THEN BOOLEAN ELSE {channel # "createError"}
PollStatuses(channel) ==
  CASE channel = "any" -> {"ready", "processing", "failed"}
    [] channel = "neverReady" -> {"processing"}
    [] channel = "failed" -> {"failed"}
    [] OTHER -> {"ready"}

\* The captcha settings of a run: a short configured timeout with the provider
\* free to answer anything on the second channel, or the shipped timeout; the
\* answers of the other channels are fixed for the run.
ShippedProfiles ==
  {[timeout |-> ConfigTimeoutS, channel |-> ch] : ch \in [Solvers -> FixedChannels]}
CaptchaProfiles ==
  {[timeout |-> CaptchaTimeoutS, channel |-> [i \in Solvers |-> IF i = 2 THEN "any" ELSE c]] :
     c \in FixedChannels}
  \cup ShippedProfiles
SolverSettled(s) == s.pc \in {"fulfilled", "rejected"}

\* The catch block of solve: rethrow on the last attempt, else sleep 5000 * attempts.
SolveCatchOneShort(s, now, error) ==
  IF s.attempts >= SolveMaxAttempts - 1
    THEN [s EXCEPT !.pc = "rejected", !.wake = Never, !.raised = error,
                   !.errors = Append(s.errors, error)]
    ELSE [s EXCEPT !.pc = "backoff", !.wake = now + SolveBackoffMs * s.attempts,
                   !.errors = Append(s.errors, error),
                   !.waits = Append(s.waits, SolveBackoffMs * s.attempts)]

SolveCatch(s, now, error) ==
  IF s.attempts >= SolveMaxAttempts
    THEN [s EXCEPT !.pc = "rejected", !.wake = Never, !.raised = error,
                   !.errors = Append(s.errors, error)]
    ELSE [s EXCEPT !.pc = "backoff", !.wake = now + SolveBackoffMs * s.attempts,
                   !.errors = Append(s.errors, error),
                   !.waits = Append(s.waits, SolveBackoffMs * s.attempts)]

\* One pass of solve's while loop up to its first await: without an api_key the
\* attempt throws at once, else createTask is posted.
SolveEnter(s, now, hasKey) ==
  LET t == [s EXCEPT !.attempts = s.attempts + 1]
  IN IF ~hasKey THEN SolveCatch(t, now, MissingParamsMsg)
     ELSE [t EXCEPT !.pc = "create", !.wake = now + CapLatencyMs,
                    !.creates = s.creates + 1]

\* The poll loop's test: while (Date.now() - startTime < timeout * 1000).
SolvePollTest(s, now) ==
  IF now - s.pollStart < CaptchaTimeoutMs(s.timeout)
    THEN [s EXCEPT !.pc = "pollSleep", !.wake = now + PollIntervalMs]
    ELSE SolveCatch([s EXCEPT !.elapsed = now - s.pollStart], now,
                    SolveTimeoutMsg(s.timeout))

SolveAfterCreate(s, now, ok) ==
  IF ok THEN SolvePollTest([s EXCEPT !.pollStart = now], now)
  ELSE SolveCatch(s, now, CapsolverErrorMsg)

SolveAfterPoll(s, now, status) ==
  CASE status = "ready" -> [s EXCEPT !.pc = "fulfilled", !.wake = Never, !.token = Token]
    [] status = "processing" -> SolvePollTest(s, now)
    [] OTHER -> SolveCatch(s, now, TaskFailedMsg)

\* solveMultiple(configs), the two configs being named recaptchaToken
\* and recaptchaTokenV2 by _solveCaptchas: what it settles with once Promise.allSettled
\* has every solve's outcome.
CaptchaErrorMsg == "All captchas failed to solve"
CaptchasPending ==
  [state |-> "pending", results |-> [i \in Solvers |-> Null], message |-> ""]

\* A collection that needs every solve to have produced a token.
SolveMultipleAllRequired(sv) ==
  LET results == [i \in Solvers |-> IF sv[i].pc = "fulfilled" THEN Token ELSE Null]
  IN IF \A i \in Solvers : results[i] # Null
       THEN [state |-> "resolved", results |-> results, message |-> ""]
       ELSE [state |-> "rejected", results |-> results, message |-> CaptchaErrorMsg]

SolveMultiple(sv) ==
  LET results == [i \in Solvers |-> IF sv[i].pc = "fulfilled" THEN Token ELSE Null]
      successCount == Cardinality({i \in Solvers : results[i] # Null})
  IN IF successCount > 0
       THEN [state |-> "resolved", results |-> results, message |-> ""]
       ELSE [state |-> "rejected", results |-> results, message |-> CaptchaErrorMsg]

\* Sessions in which every locally built user carries the fake marker.
SessionLocalIsFake(kind) == [kind |-> kind, address |-> WalletAddress, fake |-> kind # "real"]

Session(kind) == [kind |-> kind, address |-> WalletAddress, fake |-> kind = "fake"]
NoSession == [kind |-> "none", address |-> Undefined, fake |-> FALSE]

\* api.getCsrfToken() settles with the token of the response or, its retries used
\* up, with an error.
ServerCsrfToken == "9f2c4e7a"
CsrfOutcomes == {[ok |-> TRUE, token |-> ServerCsrfToken], [ok |-> FALSE, token |-> Undefined]}

\* Math.random().toString(36).substring(2, 15)
RandomTokens == {"k3x9q0zt1ab"}

\* csrfToken after the try/catch around getCsrfToken().
CsrfTokens(csrf) == IF csrf.ok THEN {csrf.token} ELSE RandomTokens

\* WalletService.createAuthMessage(walletAddress, csrfToken): the lines of the
\* message, up to the Nonce line (the line that follows holds the time of the call).
CreateAuthMessage(walletAddress, csrfToken) ==
  <<"www.magicnewton.com wants you to sign in with your Ethereum account:",
    walletAddress, "", "Please sign with your account", "",
    "URI: https://www.magicnewton.com", "Version: 1", "Chain ID: 1",
    "Nonce: " \o csrfToken>>

\* The text of the message's Nonce line after "Nonce: ".
NonceOf(message) ==
  LET line == message[Len(message)] IN SubSeq(line, Len("Nonce: ") + 1, Len(line))

\* wallet.signMessage(message): a signature over exactly that message.
SignMessage(message) == [signed |-> message]

NoLoginResponse == [url |-> Undefined, error |-> Undefined]

NoPayload ==
  [message |-> <<>>, signature |-> SignMessage(<<>>), csrfToken |-> "",
   recaptchaToken |-> Null, recaptchaTokenV2 |-> Null]

\* A payload that carries a token drawn anew.
CreateLoginPayloadFreshToken(message, signature, csrfToken, captchaResults) ==
  [message |-> message, signature |-> signature, csrfToken |-> "5w81m",
   recaptchaToken |-> captchaResults[1], recaptchaTokenV2 |-> captchaResults[2]]

\* _createLoginPayload({message, signature, csrfToken, captchaResults})
CreateLoginPayload(message, signature, csrfToken, captchaResults) ==
  [message |-> message, signature |-> signature, csrfToken |-> csrfToken,
   recaptchaToken |-> captchaResults[1], recaptchaTokenV2 |-> captchaResults[2]]

\* authenticate does not look at which ApiClient it holds: its gateway calls settle
\* one way or the other with either.
AuthApis == {ApiNamespaced}

\* authenticate(wallet) entered: no attempt made yet.
AuthStart(api, hasKey, captcha) ==
  [api |-> api, hasKey |-> hasKey, captcha |-> captcha, pc |-> "entered", now |-> 0, attempts |-> 0,
   wake |-> Never, sv |-> [i \in Solvers |-> SolverIdle], session |-> NoSession,
   raised |-> FALSE, capFails |-> 0, logins |-> 0, remote |-> FALSE,
   captchas |-> CaptchasPending, backoffs |-> <<>>,
   csrfFailed |-> FALSE, csrfToken |-> "", message |-> <<>>, payload |-> NoPayload,
   loginResponse |-> NoLoginResponse, fetches |-> 0, firstFetch |-> "none", secondFetch |-> "none"]

\* The top of an attempt: authAttempts++ and getCsrfToken().
AuthBegin(a, now, lat) ==
  [a EXCEPT !.pc = "csrf", !.now = now, !.attempts = a.attempts + 1,
            !.wake = now + lat, !.remote = TRUE]

\* A wait that does not grow with the attempt.
AuthBackoffWaitFlat(attempts) == AuthBackoffMs

\* const waitTime = 5000 * authAttempts
AuthBackoffWait(attempts) == AuthBackoffMs * attempts

\* A catch block that rethrows on the last attempt.
AuthCatchRethrow(a, now) ==
  IF a.attempts >= MaxAuthAttempts
    THEN [a EXCEPT !.pc = "raised", !.now = now, !.wake = Never, !.raised = TRUE]
    ELSE [a EXCEPT !.pc = "attemptBackoff", !.now = now,
                   !.wake = now + AuthBackoffWait(a.attempts),
                   !.backoffs = Append(a.backoffs, AuthBackoffWait(a.attempts))]

\* The catch block of authenticate: a fake session on the last attempt, else a
\* sleep of 5000 * authAttempts.
AuthCatch(a, now) ==
  IF a.attempts >= MaxAuthAttempts
    THEN [a EXCEPT !.pc = "returned", !.now = now, !.wake = Never,
                   !.session = Session("fake")]
    ELSE [a EXCEPT !.pc = "attemptBackoff", !.now = now,
                   !.wake = now + AuthBackoffWait(a.attempts),
                   !.backoffs = Append(a.backoffs, AuthBackoffWait(a.attempts))]

\* getCsrfToken settled (a failure is replaced by a random token); the message is
\* signed and both solves are started.
AuthAfterCsrf(a, now, csrf, csrfToken) ==
  [a EXCEPT !.pc = "captcha", !.now = now, !.wake = Never,
            !.csrfFailed = ~csrf.ok, !.csrfToken = csrfToken,
            !.message = CreateAuthMessage(WalletAddress, csrfToken),
            !.sv = [i \in Solvers |->
                      SolveEnter([SolverIdle EXCEPT !.timeout = a.captcha.timeout],
                                 now, a.hasKey)],
            !.remote = TRUE, !.captchas = CaptchasPending]

\* Promise.allSettled has both results: with no token the attempt throws
\* 'All captchas failed to solve', else the login request is sent.
AuthAfterCaptchas(a, now, lat) ==
  LET captchas == SolveMultiple(a.sv)
  IN IF captchas.state = "resolved"
       THEN [a EXCEPT !.pc = "login", !.now = now, !.wake = now + lat,
                      !.logins = a.logins + 1, !.captchas = captchas,
                      !.payload = CreateLoginPayload(a.message, SignMessage(a.message),
                                                     a.csrfToken, captchas.results)]
       ELSE AuthCatch([a EXCEPT !.capFails = a.capFails + 1, !.captchas = captchas], now)

\* A solve moved to `s`: when it was the last one pending, authenticate resumes.
AuthOnSolver(a, i, s, now, lat) ==
  LET b == [a EXCEPT !.sv[i] = s, !.now = now]
  IN IF a.pc = "captcha" /\ \A j \in Solvers : SolverSettled(b.sv[j])
       THEN AuthAfterCaptchas(b, now, lat)
       ELSE b

\* api.login(payload, headers) settles with the body of the response (its url when
\* it has one) or, its retries used up, with an error.
PortalUrl == "https://www.magicnewton.com/portal"
ErrorUrl == "https://www.magicnewton.com/api/auth/error?error=CredentialsSignin"
LoginOutcomes ==
  {[ok |-> TRUE, url |-> PortalUrl, message |-> Undefined],
   [ok |-> TRUE, url |-> ErrorUrl, message |-> Undefined],
   [ok |-> TRUE, url |-> Undefined, message |-> Undefined],
   [ok |-> FALSE, url |-> Undefined, message |-> "Request failed with status code 401"]}

\* _sendLoginRequest(payload): the response, or { error: error.message }.
SendLoginRequest(login) ==
  IF login.ok THEN [url |-> login.url, error |-> Undefined]
  ELSE [url |-> Undefined, error |-> login.message]

\* _checkLoginResponse(loginResponse) of services/auth.js
CheckLoginResponse(loginResponse) ==
  loginResponse.url # Undefined /\ ~Contains(loginResponse.url, "error")

\* A Submit whose failure ends the attempt.
AuthAfterLoginFatal(a, now, login) ==
  IF CheckLoginResponse(SendLoginRequest(login))
    THEN [a EXCEPT !.pc = "sessionWait", !.now = now, !.wake = now + SessionWaitMs,
                   !.loginResponse = SendLoginRequest(login)]
    ELSE AuthCatch([a EXCEPT !.loginResponse = SendLoginRequest(login)], now)

\* _sendLoginRequest settled; whatever it gave, sleep(5000) follows.
AuthAfterLogin(a, now, login) ==
  [a EXCEPT !.pc = "sessionWait", !.now = now, !.wake = now + SessionWaitMs,
            !.loginResponse = SendLoginRequest(login)]

\* A _getSession that tries once more whenever the first getSession() gave no user.
AuthAfterSession1RetryAlways(a, now, kind) ==
  IF kind = "user"
    THEN [a EXCEPT !.pc = "returned", !.now = now, !.wake = Never,
                   !.session = Session("real"), !.firstFetch = kind]
    ELSE [a EXCEPT !.pc = "sessionRetryWait", !.now = now,
                   !.wake = now + SessionWaitMs, !.firstFetch = kind]

\* _getSession after the first getSession(): kind is "user", "nouser" or "error".
AuthAfterSession1(a, now, kind) ==
  CASE kind = "user" -> [a EXCEPT !.pc = "returned", !.now = now, !.wake = Never,
                                  !.session = Session("real"), !.firstFetch = kind]
    [] kind = "nouser" -> [a EXCEPT !.pc = "sessionRetryWait", !.now = now,
                                    !.wake = now + SessionWaitMs, !.firstFetch = kind]
    [] OTHER -> [a EXCEPT !.pc = "returned", !.now = now, !.wake = Never,
                          !.session = Session("default"), !.firstFetch = kind]

\* A _getSession that lets the error of the second getSession() out to the catch
\* block of authenticate.
AuthAfterSession2Throws(a, now, kind) ==
  IF kind = "error" THEN AuthCatch(a, now)
  ELSE [a EXCEPT !.pc = "returned", !.now = now, !.wake = Never,
                 !.session = IF kind = "user" THEN Session("real") ELSE Session("default")]

\* _getSession after the second getSession().
AuthAfterSession2(a, now, kind) ==
  [a EXCEPT !.pc = "returned", !.now = now, !.wake = Never, !.secondFetch = kind,
            !.session = IF kind = "user" THEN Session("real") ELSE Session("default")]

(***************************************************************************)
(* AccountRunner.run: wallet, authentication under a 60 s supervisor,      *)
(* user info under 15 s, quests under 90 s.                                *)
(***************************************************************************)
AuthSupervisorMs == 60000
PostAuthSleepMs == 2000
UserInfoTimeoutMs == 15000
AccountTimeoutMs == 180000

\* `Invalid private key: ${error.message}`, built by createWallet and again by run
InvalidKeyMessage == "Invalid private key: " \o "Invalid private key: invalid BytesLike value"
AuthTimeoutMsg == "Authentication timed out for account 1"

\* A completeQuests() result: a list, or a value that is not one.
QuestList(items) == [isList |-> TRUE, items |-> items]
NotAList == [isList |-> FALSE, items |-> <<>>]

\* A result that keeps whatever the quest phase returned.
KeepAsIs(completed) == completed

\* completedQuests || []
ListOrEmpty(completed) == IF completed.isList THEN completed ELSE QuestList(<<>>)

RunResult(wallet, error, completed, questError) ==
  [wallet |-> wallet, error |-> error, completedQuests |-> completed,
   questError |-> questError]

AccountStart(keyValid) ==
  [pc |-> "start", keyValid |-> keyValid, walletBuilds |-> 0, wake |-> Never,
   deadline |-> Never, session |-> NoSession, questPhase |-> FALSE,
   pending |-> Resolved(NotAList), returned |-> FALSE, raised |-> FALSE,
   finishedAt |-> Never, userInfo |-> Rejected(NoError), result |-> RunResult(Undefined, "", NotAList, "")]

\* run() returns `result` at time `now` (run() was called at time 0).
AccountReturn(acct, now, result) ==
  [acct EXCEPT !.pc = "returned", !.returned = TRUE, !.wake = Never, !.deadline = Never,
               !.finishedAt = now, !.result = result]

\* run() up to its first await: createWallet throws on a malformed key.
AccountEnter(acct) ==
  IF ~acct.keyValid
    THEN AccountReturn([acct EXCEPT !.walletBuilds = acct.walletBuilds + 1], 0,
                       RunResult(Undefined, InvalidKeyMessage, QuestList(<<>>), ""))
    ELSE [acct EXCEPT !.pc = "auth", !.walletBuilds = acct.walletBuilds + 1,
                      !.deadline = AuthSupervisorMs]

\* await withTimeout(authPromise, 60000) settles with authenticate's outcome.
AccountAfterAuth(acct, a) ==
  IF a.pc = "raised"
    THEN AccountReturn(acct, a.now, RunResult(WalletAddress,
                                       "Authentication failed: All captchas failed to solve",
                                       QuestList(<<>>), ""))
    ELSE [acct EXCEPT !.pc = "postAuthSleep", !.session = a.session, !.deadline = Never,
                      !.wake = a.now + PostAuthSleepMs]

\* A run that goes on after the 60 s timer has fired.
AccountAuthTimedOutGoesOn(acct) ==
  [acct EXCEPT !.pc = "postAuthSleep", !.deadline = Never,
               !.wake = acct.deadline + PostAuthSleepMs]

\* A race whose timer, on firing, also stopped the operation it lost to.
AuthCancelled(a, now) ==
  [a EXCEPT !.now = now, !.pc = "cancelled", !.wake = Never,
            !.sv = [i \in Solvers |-> [a.sv[i] EXCEPT !.pc = "cancelled", !.wake = Never]]]

\* Promise.race settles with the timer's rejection and leaves authPromise alone:
\* authenticate only sees the time pass.
AuthAbandoned(a, now) == [a EXCEPT !.now = now]

\* The 60 s timer rejects the race: the catch returns the error result.
AccountAuthTimedOut(acct) ==
  AccountReturn(acct, acct.deadline,
                RunResult(WalletAddress, "Authentication failed: " \o AuthTimeoutMsg,
                          QuestList(<<>>), ""))

\* An account resumes when the authenticate it is waiting for has settled.
AcOnAuth(acct, a) ==
  IF acct.pc = "auth" /\ a.pc \in {"returned", "raised"} THEN AccountAfterAuth(acct, a)
  ELSE acct

\* this._isTimeoutApproaching(startTime)
IsTimeoutApproaching(now, startTime) == now - startTime > AccountTimeoutMs - 30000

\* After getUserInfo settled either way: the timeout check, then the quest phase,
\* whose supervised result `r` arrives later.
AccountAfterUserInfo(acct, now, r) ==
  IF IsTimeoutApproaching(now, 0)
    THEN AccountReturn(acct, now,
                       RunResult(WalletAddress, "Processing timeout before quests",
                                 QuestList(<<>>), ""))
    ELSE [acct EXCEPT !.pc = "quests", !.questPhase = TRUE, !.wake = now + r.at,
                      !.pending = r.outcome]

\* await withTimeout(questsPromise, 90000) settled.
AccountAfterQuests(acct) ==
  AccountReturn(acct, acct.wake,
    IF acct.pending.ok
      THEN RunResult(WalletAddress, "", ListOrEmpty(acct.pending.value), "")
      ELSE RunResult(WalletAddress, "", QuestList(<<>>), acct.pending.error.message))

\* The times at which something pending resumes.
PendingWakes ==
  ((IF au.pc = "idle" THEN {} ELSE {au.wake} \cup {au.sv[i].wake : i \in Solvers})
   \cup (IF ac.pc = "idle" THEN {} ELSE {ac.wake, ac.deadline})) \ {Never}

IsNext(w) == w # Never /\ \A x \in PendingWakes : w <= x

\* The time completeQuests takes: at most that of its three supervised calls.
QuestDurations == {1000, DiceRollLimitMs}

\* The time getUserInfo takes, were it left alone; Never: it does not settle.
UserInfoLatencies == ApiLatencies \cup {200000, Never}
QuestPhaseResults ==
  {QuestList(<<>>), NotAList,
   QuestList(<<QData("q-dice", "COMPLETED", Undefined, Some(12), Absent, Undefined)>>)}

InitAuth ==
  /\ IdleRetry /\ IdleTimeout /\ IdleQuest /\ IdleMine /\ IdleProxy /\ IdleBot /\ IdlePlay /\ IdleGateway
  /\ ac = AcIdle
  /\ \E api \in AuthApis, hasKey \in BOOLEAN, lat \in ApiLatencies,
        captcha \in CaptchaProfiles :
       au = AuthBegin(AuthStart(api, hasKey, captcha), 0, lat)

InitAccount ==
  /\ IdleRetry /\ IdleTimeout /\ IdleQuest /\ IdleMine /\ IdleProxy /\ IdleBot /\ IdlePlay /\ IdleGateway
  /\ \E keyValid \in BOOLEAN : ac = AccountStart(keyValid)
  /\ \E api \in AuthApis, hasKey \in BOOLEAN, captcha \in CaptchaProfiles :
       au = AuthStart(api, hasKey, captcha)

\* getCsrfToken() settled, with a token or with an error.
AuCsrfSettles ==
  /\ au.pc = "csrf" /\ IsNext(au.wake)
  /\ \E csrf \in CsrfOutcomes : \E csrfToken \in CsrfTokens(csrf) :
       au' = AuthAfterCsrf(au, au.wake, csrf, csrfToken)
  /\ ac' = AcOnAuth(ac, au')
  /\ UNCHANGED othersAccount

\* createTask settled: a task id, or an error (request error or errorId > 0).
SvCreateSettles ==
  /\ \E i \in Solvers :
       /\ au.sv[i].pc = "create" /\ IsNext(au.sv[i].wake)
       /\ \E ok \in CreateOutcomes(au.captcha.channel[i]), lat \in ApiLatencies :
            au' = AuthOnSolver(au, i, SolveAfterCreate(au.sv[i], au.sv[i].wake, ok),
                               au.sv[i].wake, lat)
  /\ ac' = AcOnAuth(ac, au')
  /\ UNCHANGED othersAccount

\* sleep(3000) is over: getTaskResult is posted.
SvPollSleepDone ==
  /\ \E i \in Solvers :
       /\ au.sv[i].pc = "pollSleep" /\ IsNext(au.sv[i].wake)
       /\ au' = [au EXCEPT !.now = au.sv[i].wake, !.sv[i].pc = "poll",
                           !.sv[i].wake = au.sv[i].wake + CapLatencyMs]
  /\ ac' = ac
  /\ UNCHANGED othersAccount

\* getTaskResult settled: ready, still processing, or failed (status or error).
SvPollSettles ==
  /\ \E i \in Solvers :
       /\ au.sv[i].pc = "poll" /\ IsNext(au.sv[i].wake)
       /\ \E status \in PollStatuses(au.captcha.channel[i]), lat \in ApiLatencies :
            au' = AuthOnSolver(au, i, SolveAfterPoll(au.sv[i], au.sv[i].wake, status),
                               au.sv[i].wake, lat)
  /\ ac' = AcOnAuth(ac, au')
  /\ UNCHANGED othersAccount

\* sleep(5000 * attempts) of solve is over: the next attempt starts.
SvBackoffDone ==
  /\ \E i \in Solvers :
       /\ au.sv[i].pc = "backoff" /\ IsNext(au.sv[i].wake)
       /\ \E lat \in ApiLatencies :
            au' = AuthOnSolver(au, i, SolveEnter(au.sv[i], au.sv[i].wake, au.hasKey),
                               au.sv[i].wake, lat)
  /\ ac' = AcOnAuth(ac, au')
  /\ UNCHANGED othersAccount

\* sleep(5000 * authAttempts) of authenticate is over: the next attempt starts.
AuAttemptBackoffDone ==
  /\ au.pc = "attemptBackoff" /\ IsNext(au.wake)
  /\ \E lat \in ApiLatencies : au' = AuthBegin(au, au.wake, lat)
  /\ ac' = ac
  /\ UNCHANGED othersAccount

\* login settled (an error is turned into { error }): sleep(5000).
AuLoginSettles ==
  /\ au.pc = "login" /\ IsNext(au.wake)
  /\ \E login \in LoginOutcomes : au' = AuthAfterLogin(au, au.wake, login)
  /\ ac' = ac
  /\ UNCHANGED othersAccount

\* sleep(5000) after login is over: getSession().
AuSessionWaitDone ==
  /\ au.pc = "sessionWait" /\ IsNext(au.wake)
  /\ \E lat \in ApiLatencies :
       au' = [au EXCEPT !.pc = "session1", !.now = au.wake, !.wake = au.wake + lat,
                        !.fetches = au.fetches + 1]
  /\ ac' = ac
  /\ UNCHANGED othersAccount

AuSession1Settles ==
  /\ au.pc = "session1" /\ IsNext(au.wake)
  /\ \E kind \in {"user", "nouser", "error"} : au' = AuthAfterSession1(au, au.wake, kind)
  /\ ac' = AcOnAuth(ac, au')
  /\ UNCHANGED othersAccount

\* sleep(5000) before the second getSession() is over.
AuSessionRetryWaitDone ==
  /\ au.pc = "sessionRetryWait" /\ IsNext(au.wake)
  /\ \E lat \in ApiLatencies :
       au' = [au EXCEPT !.pc = "session2", !.now = au.wake, !.wake = au.wake + lat,
                        !.fetches = au.fetches + 1]
  /\ ac' = ac
  /\ UNCHANGED othersAccount

AuSession2Settles ==
  /\ au.pc = "session2" /\ IsNext(au.wake)
  /\ \E kind \in {"user", "nouser", "error"} : au' = AuthAfterSession2(au, au.wake, kind)
  /\ ac' = AcOnAuth(ac, au')
  /\ UNCHANGED othersAccount

NextAuth ==
  \/ AuCsrfSettles \/ SvCreateSettles \/ SvPollSleepDone \/ SvPollSettles \/ SvBackoffDone
  \/ AuAttemptBackoffDone \/ AuLoginSettles \/ AuSessionWaitDone \/ AuSession1Settles
  \/ AuSessionRetryWaitDone \/ AuSession2Settles

SpecAuth == InitAuth /\ [][NextAuth]_vars

\* authenticate with the shipped captcha timeout, where every pending timer and
\* request comes due.
InitAuthLive == InitAuth /\ au.captcha \in ShippedProfiles
SpecAuthLive == InitAuthLive /\ [][NextAuth]_vars /\ WF_vars(NextAuth)

\* run() is called: the wallet is built and authenticate is started under its timer.
AcRun ==
  /\ ac.pc = "start"
  /\ ac' = AccountEnter(ac)
  /\ IF ac.keyValid
       THEN \E lat \in ApiLatencies : au' = AuthBegin(au, 0, lat)
       ELSE au' = au
  /\ UNCHANGED othersAccount

\* The 60 s timer of withTimeout(authPromise, 60000) fires first.
AcAuthTimerFires ==
  /\ ac.pc = "auth" /\ IsNext(ac.deadline)
  /\ ac' = AccountAuthTimedOut(ac)
  /\ au' = AuthAbandoned(au, ac.deadline)
  /\ UNCHANGED othersAccount

\* sleep(2000) is over: getUserInfo() under a 15 s timer.
AcPostAuthSleepDone ==
  /\ ac.pc = "postAuthSleep" /\ IsNext(ac.wake)
  /\ \E lat \in UserInfoLatencies, ok \in BOOLEAN :
       \E r \in WithTimeoutResults(lat, IF ok THEN Resolved(NoValue) ELSE Rejected(TypeErrorThis),
                                   UserInfoTimeoutMs, "User info retrieval timed out") :
         ac' = [ac EXCEPT !.pc = "userInfo", !.wake = ac.wake + r.at,
                          !.userInfo = r.outcome]
  /\ au' = [au EXCEPT !.now = ac.wake]
  /\ UNCHANGED othersAccount

\* getUserInfo settled or timed out: the quest phase starts under a 90 s timer.
AcUserInfoSettles ==
  /\ ac.pc = "userInfo" /\ IsNext(ac.wake)
  /\ \E d \in QuestDurations, q \in QuestPhaseResults :
       \E r \in WithTimeoutResults(d, Resolved(q), QuestSupervisorMs,
                                   "Quest completion timed out for account 1") :
         ac' = AccountAfterUserInfo(ac, ac.wake, r)
  /\ au' = [au EXCEPT !.now = ac.wake]
  /\ UNCHANGED othersAccount

AcQuestsSettle ==
  /\ ac.pc = "quests" /\ IsNext(ac.wake)
  /\ ac' = AccountAfterQuests(ac)
  /\ au' = [au EXCEPT !.now = ac.wake]
  /\ UNCHANGED othersAccount

NextAccount ==
  \/ AcRun \/ AcAuthTimerFires \/ AcPostAuthSleepDone \/ AcUserInfoSettles \/ AcQuestsSettle
  \/ NextAuth

SpecAccount == InitAccount /\ [][NextAccount]_vars

\* C3: when both captcha solves fail on every attempt, authenticate does not raise
\* and returns, after its third attempt, the fallback session: the wallet's address
\* with fake = true.
C3_FallbackAfterCaptchaFailures ==
  /\ au.pc # "idle" => ~au.raised /\ au.pc # "raised"
  /\ (au.pc = "returned" /\ au.capFails = au.attempts) =>
       /\ au.attempts = MaxAuthAttempts
       /\ au.session = [kind |-> "fake", address |-> WalletAddress, fake |-> TRUE]
       /\ au.logins = 0

\* C3 witness: with an api key configured, three attempts ended with both solves
\* rejected by the solver, and the fallback session was returned.
C3_Witness_FakeSession ==
  /\ au.pc = "returned" /\ au.hasKey /\ au.capFails = 3 /\ au.session.fake
  /\ \A i \in Solvers : au.sv[i].pc = "rejected"

\* authenticate is over: it returned a session or it raised.
AuthOver == au.pc \in {"returned", "raised"}

\* Every top-level attempt made so far has failed.
EveryAttemptFailed == au.pc \in {"attemptBackoff", "raised"} \/ (au.pc = "returned" /\ au.session.fake)

\* C31: a failed getCsrfToken() does not end the attempt: authenticate takes a random
\* token, signs the message and starts the solves in the same attempt, and posts the
\* login in that attempt when a solve gives a token; the nonce of the signed message
\* is the csrfToken of the login payload.
C31_CsrfFailureNotFatal ==
  /\ [](au.pc # "idle" =>
          /\ (au.csrfFailed /\ au.pc \in {"captcha", "login"}) =>
               /\ au.csrfToken \in RandomTokens /\ ~au.raised
               /\ au.message = CreateAuthMessage(WalletAddress, au.csrfToken)
          /\ au.logins >= 1 =>
               /\ NonceOf(au.payload.message) = au.payload.csrfToken
               /\ au.payload.signature = SignMessage(au.payload.message)
               /\ au.payload.csrfToken = au.csrfToken)
  /\ [][/\ au.pc = "csrf" =>
             /\ au'.pc = "captcha" /\ au'.attempts = au.attempts
             /\ \A i \in Solvers : au'.sv[i].pc # "idle"
        /\ (au.pc = "captcha" /\ au'.pc = "login") =>
             /\ au'.attempts = au.attempts /\ au'.csrfFailed = au.csrfFailed
             /\ au'.payload.message = au.message]_vars

\* C31 witness: the token fetch of the first attempt failed, and the login of that
\* attempt is posted with the random token that the signed message carries.
C31_Witness_LoginWithRandomToken ==
  /\ au.pc = "login" /\ au.attempts = 1 /\ au.csrfFailed /\ au.logins = 1
  /\ au.payload.csrfToken = "k3x9q0zt1ab"
  /\ au.payload.message[9] = "Nonce: k3x9q0zt1ab"

\* C32: a login response without a redirect URL or with an error-flagged one, and a
\* login request that fails outright, raise nothing and start no other attempt:
\* authenticate goes on, in the same attempt, to the 5 s wait and the session fetch.
C32_SubmitNeverFatal ==
  /\ []((au.pc # "idle" /\ au.logins >= 1 /\ au.pc # "login") =>
             /\ ~au.raised /\ au.logins = 1
             /\ au.pc \in {"sessionWait", "session1", "sessionRetryWait", "session2",
                           "returned"}
             /\ (au.pc = "returned" => ~au.session.fake))
  /\ [][/\ au.pc = "login" =>
             /\ au'.pc = "sessionWait" /\ au'.attempts = au.attempts
             /\ au'.wake = au'.now + 5000
        /\ au.logins >= 1 => au'.attempts = au.attempts]_vars

\* C32 witness: the login request of the second attempt failed outright, and the
\* session was fetched in that attempt.
C32_Witness_SettleAfterFailedLogin ==
  /\ au.pc = "session1" /\ au.attempts = 2 /\ au.logins = 1
  /\ au.loginResponse.error # Undefined /\ ~CheckLoginResponse(au.loginResponse)

\* The waits and fetches of Settle: 5 s pass between the login and the first
\* getSession(), and between the first answer and the second getSession().
SettleSteps ==
  [][/\ (au.pc = "sessionWait" /\ au'.pc # "sessionWait") =>
          /\ au'.pc = "session1" /\ au'.now = au.now + 5000 /\ au'.fetches = 1
     /\ (au.pc = "sessionRetryWait" /\ au'.pc # "sessionRetryWait") =>
          /\ au'.pc = "session2" /\ au'.now = au.now + 5000 /\ au'.fetches = 2
     /\ (au.pc = "session2" /\ au'.pc # "session2") => au'.pc = "returned"]_vars

\* C33 (as claimed): after Submit authenticate waits 5 s and fetches the session; with
\* a user in it, that session is returned; in every other case it waits another 5 s
\* and fetches exactly once more; at most two fetches are made per attempt.
C33_SecondFetchUnlessUser ==
  (au.pc = "returned" /\ au.logins >= 1) =>
    /\ au.fetches <= 2
    /\ au.firstFetch = "user" => (au.fetches = 1 /\ au.session = Session("real"))
    /\ au.firstFetch # "user" => au.fetches = 2

\* C33 (amended): after Submit authenticate waits 5 s and fetches the session; with a
\* user in it, that session is returned; when the fetch answers without a user it
\* waits another 5 s and fetches exactly once more, returning that session if it has
\* a user; when the first fetch fails no other fetch is made; at most two fetches
\* are made per attempt.
C33_SecondFetchWhenNoUser ==
  /\ []((au.pc # "idle" /\ au.logins >= 1) =>
          /\ au.fetches <= 2
          /\ au.pc = "returned" =>
               /\ au.firstFetch = "user" => (au.fetches = 1 /\ au.session = Session("real"))
               /\ au.firstFetch = "nouser" =>
                    (au.fetches = 2 /\ au.session \in {Session("real"), Session("default")})
               /\ au.firstFetch = "error" =>
                    (au.fetches = 1 /\ au.session = Session("default")))
  /\ SettleSteps

\* C33 witness: the first fetch had no user, the second one, 5 s and one call
\* later, had one, and its session was returned.
C33_Witness_UserAtSecondFetch ==
  /\ au.pc = "returned" /\ au.firstFetch = "nouser" /\ au.fetches = 2
  /\ au.session = Session("real")

\* C34: solve makes at most 3 attempts, each with at most one createTask; it returns
\* the token of the first attempt whose task is reported ready; it waits 5 s after
\* a failed first attempt and 10 s after a failed second one, and raises the
\* failure of the third; an attempt whose task is never reported ready or failed
\* ends with the timeout failure, once the configured timeout has elapsed since
\* the task was created.
C34_SolveThreeAttempts ==
  au.pc # "idle" =>
    \A i \in Solvers :
      LET s == au.sv[i]
          failed == Len(s.errors)
      IN /\ s.attempts <= 3 /\ s.creates <= s.attempts
         /\ s.pc = "fulfilled" => (s.token = Token /\ failed = s.attempts - 1 /\ s.raised = "")
         /\ s.pc = "rejected" =>
              (s.attempts = 3 /\ failed = 3 /\ s.raised = s.errors[3] /\ s.token = Null)
         /\ s.pc = "backoff" => (failed = s.attempts /\ s.attempts \in {1, 2})
         /\ s.waits \in {<<>>, <<5000>>, <<5000, 10000>>}
         /\ Len(s.waits) = IF s.pc = "rejected" THEN 2 ELSE failed
         /\ \A n \in 1 .. failed :
              s.errors[n] = SolveTimeoutMsg(s.timeout) =>
                s.elapsed >= OrDefault(s.timeout, 120) * 1000
         /\ (au.captcha.channel[i] = "neverReady" /\ au.hasKey) =>
              \A n \in 1 .. failed : s.errors[n] = SolveTimeoutMsg(s.timeout)

\* C34 witness: a solve whose first two attempts failed, one at createTask and one
\* by timeout, and whose third task was reported ready.
C34_Witness_TokenAtThirdAttempt ==
  \E i \in Solvers :
    /\ au.sv[i].pc = "fulfilled" /\ au.sv[i].attempts = 3 /\ au.sv[i].creates = 3
    /\ au.sv[i].waits = <<5000, 10000>>
    /\ \E n \in 1 .. 2 : au.sv[i].errors[n] = SolveTimeoutMsg(au.sv[i].timeout)

AuthWaitsFiveThenTen ==
  au.pc # "idle" =>
    /\ au.attempts <= MaxAuthAttempts /\ ~au.raised
    /\ au.pc = "returned" => au.session.kind \in {"real", "default", "fake"}
    /\ au.backoffs \in {<<>>, <<5000>>, <<5000, 10000>>}
    /\ Len(au.backoffs) = IF EveryAttemptFailed /\ au.pc # "returned"
                            THEN au.attempts ELSE au.attempts - 1
    /\ au.pc = "attemptBackoff" => au.wake = au.now + 5000 * au.attempts
    /\ (au.pc = "returned" /\ au.session.fake) => au.attempts = MaxAuthAttempts

C12_SolveMultipleCollects ==
  /\ [](au.pc # "idle" =>
         /\ au.pc = "captcha" <=>
               (\E i \in Solvers : au.sv[i].pc # "idle" /\ ~SolverSettled(au.sv[i]))
         /\ au.pc = "captcha" => \A i \in Solvers : au.sv[i].pc # "idle"
         /\ au.pc = "captcha" <=> (au.captchas.state = "pending" /\ au.pc \notin {"entered", "csrf"})
         /\ au.captchas.state # "pending" =>
              /\ \A i \in Solvers : SolverSettled(au.sv[i])
              /\ \A i \in Solvers :
                    au.captchas.results[i] =
                      IF au.sv[i].pc = "fulfilled" THEN Token ELSE Null
              /\ au.captchas.state = "resolved" <=>
                    (\E i \in Solvers : au.sv[i].pc = "fulfilled")
              /\ au.captchas.state = "rejected" <=>
                    (\A i \in Solvers : au.sv[i].pc = "rejected")
              /\ au.captchas.state = "rejected" =>
                    au.captchas.message = "All captchas failed to solve")
  /\ [][\A i \in Solvers :
         (au.pc = "captcha" /\ au'.sv[i].pc = "rejected" /\ au.sv[i].pc # "rejected") =>
            \A j \in Solvers \ {i} : au'.sv[j] = au.sv[j]]_vars

\* C12 witness: one solve was rejected after its third attempt, the other one
\* produced a token later, and solveMultiple resolved with one null entry.
C12_Witness_OneNullEntry ==
  /\ au.pc = "login" /\ au.captchas.state = "resolved"
  /\ au.sv[1].pc = "rejected" /\ au.sv[1].attempts = SolveMaxAttempts
  /\ au.sv[2].pc = "fulfilled" /\ au.sv[2].attempts > 1
  /\ au.captchas.results = [i \in Solvers |-> IF i = 1 THEN Null ELSE Token]

\* C1: an account run never raises: it returns a result whose completedQuests is a
\* list; with a malformed key it returns at once with the 'Invalid private key'
\* error, having built the wallet once and issued no remote call.
C1_RunAlwaysReturnsResult ==
  ac.pc # "idle" =>
    /\ ~ac.raised
    /\ ac.pc \in {"start", "auth", "postAuthSleep", "userInfo", "quests", "returned"}
    /\ ac.returned => ac.result.completedQuests.isList
    /\ (~ac.keyValid /\ ac.pc # "start") =>
         /\ ac.returned
         /\ ac.result.error = "Invalid private key: Invalid private key: invalid BytesLike value"
         /\ ac.result.completedQuests = QuestList(<<>>)
         /\ ac.walletBuilds = 1
         /\ ~au.remote /\ au.pc = "entered"

\* C1 witness: a run with a well-formed key whose quest phase handed back something
\* that is not a list has returned, with an empty list.
C1_Witness_Normalised ==
  /\ ac.returned /\ ac.keyValid /\ ac.questPhase
  /\ ac.pending = Resolved(NotAList)
  /\ ac.result.completedQuests = QuestList(<<>>)

\* C2 (as claimed): every account run with a well-formed key gets a session, real or
\* fallback, from the authentication phase and reaches the quest phase.
C2_SessionAlwaysProduced ==
  (ac.pc # "idle" /\ ac.keyValid /\ ac.returned) =>
    /\ ac.session.kind # "none"
    /\ ac.questPhase

\* Inside an account run the fallback session is never delivered: three attempts with
\* failing solves take 60 s of waits plus the time of the gateway calls, and the 60 s
\* timer fires first.
FallbackPreempted ==
  ac.pc # "idle" =>
    /\ ac.session.kind # "fake"
    /\ (ac.returned /\ ac.keyValid /\ ~au.hasKey) =>
         ac.result.error = "Authentication failed: Authentication timed out for account 1"

\* C22: an account run returns its result no later than 180 s after it starts,
\* whatever the remote platform and the challenge provider do: a run that has
\* returned did so by then, and a run that has not returned is waiting on a timer
\* of its own that fires by then.
C22_RunWithinAccountDeadline ==
  ac.pc # "idle" =>
    /\ ac.returned => (ac.finishedAt # Never /\ ac.finishedAt <= AccountTimeoutMs)
    /\ (~ac.returned /\ ac.pc # "start") =>
         LET timer == IF ac.pc = "auth" THEN ac.deadline ELSE ac.wake
         IN timer # Never /\ timer <= AccountTimeoutMs

\* C22 witness: authentication took most of its 60 s, user info never answered
\* and the quest phase took its 35 s: the run returned more than 100 s after it
\* started.
C22_Witness_EveryPhaseAtItsLimit ==
  /\ ac.returned /\ ac.questPhase /\ ac.finishedAt > 100000
  /\ ac.userInfo = Rejected(TimeoutError(UserInfoTimeoutMs, "User info retrieval timed out"))
  /\ ac.result.questError = "" /\ ac.result.error = ""

\* No getSession() of this call showed a user: the first failed, or showed none and
\* the second failed or showed none.
NoUserFetched(a) ==
  \/ a.firstFetch = "error"
  \/ a.firstFetch = "nouser" /\ a.secondFetch \in {"nouser", "error"}

\* C39: when the login was sent and no session fetch showed a user, authenticate
\* returns in that same attempt the default session, with the local wallet address
\* and without the fake marker; every session it returns has a user; and the fake
\* marker is set exactly when the call ended in the catch block of its third
\* attempt, all three attempts having raised.
C39_DefaultSessionAfterSubmit ==
  /\ [](au.pc = "returned" =>
          /\ au.session.kind \in {"real", "default", "fake"}
          /\ au.session.address # Undefined
          /\ (au.logins = 1 /\ NoUserFetched(au)) =>
               /\ au.session.kind = "default"
               /\ au.session.address = WalletAddress
               /\ ~au.session.fake
               /\ au.capFails = au.attempts - 1
          /\ au.session.fake <=>
               (au.attempts = MaxAuthAttempts /\ au.capFails = MaxAuthAttempts /\ au.logins = 0))
  /\ [][(au.pc \in {"session1", "session2"} /\ au'.pc = "returned") =>
          au'.attempts = au.attempts]_vars

\* C39 witness: the first getSession() showed no user and the second failed: the
\* first attempt returned the default session.
C39_Witness_DefaultAfterTwoFetches ==
  /\ au.pc = "returned" /\ au.attempts = 1 /\ au.logins = 1
  /\ au.firstFetch = "nouser" /\ au.secondFetch = "error" /\ au.fetches = 2
  /\ au.session = [kind |-> "default", address |-> WalletAddress, fake |-> FALSE]

\* The positions of authenticate from the login request to its return.
AfterSubmit == {"login", "sessionWait", "session1", "sessionRetryWait", "session2", "returned"}

\* C38: one authenticate call enters Submit (one _sendLoginRequest) at most once:
\* an attempt that ends in the catch block, to be retried or to end the call, has
\* sent no login request, and once the login request has been sent the call stays
\* in that attempt until it returns a session.
C38_LoginSubmittedAtMostOnce ==
  /\ [](au.pc # "idle" =>
          /\ au.logins <= 1
          /\ au.logins = 1 <=> au.pc \in AfterSubmit /\ au.session.kind # "fake"
          /\ au.pc \in {"attemptBackoff", "raised"} => au.logins = 0
          /\ (au.pc = "returned" /\ au.logins = 1) => au.session.kind \in {"real", "default"})
  /\ [][au.pc # "idle" =>
          /\ au'.attempts # au.attempts => (au.logins = 0 /\ au'.logins = 0)
          /\ au.logins = 1 => (au'.logins = 1 /\ au'.pc \in AfterSubmit)]_vars

\* C38 witness: the first attempt failed at the challenges and was retried; the
\* second sent the login request and the call returned the remote session.
C38_Witness_SubmitInSecondAttempt ==
  /\ au.pc = "returned" /\ au.attempts = 2 /\ au.capFails = 1
  /\ au.backoffs = <<5000>> /\ au.logins = 1
  /\ au.session = Session("real")

\* run() has returned the authentication-timeout result while its authenticate has
\* not settled.
AuthOutlivesRun ==
  /\ ac.returned
  /\ ac.result.error = "Authentication failed: " \o AuthTimeoutMsg
  /\ au.pc \notin {"returned", "raised"}

PhaseRank(pc) ==
  CASE pc = "start" -> 0 [] pc = "auth" -> 1 [] pc = "postAuthSleep" -> 2
    [] pc = "userInfo" -> 3 [] pc = "quests" -> 4 [] OTHER -> 5

\* C23: within one account run the phases execute in the order auth, user-info,
\* quests: the quest phase starts only from the user-info phase and only when that
\* account's authenticate has settled with a session, so the two never run
\* together; and the user-info phase is always followed by the quest phase, whether
\* the fetch succeeded, failed or timed out.
C23_PhasesInOrder ==
  /\ [](ac.pc # "idle" =>
          /\ ac.pc \in {"postAuthSleep", "userInfo", "quests"} => au.pc = "returned"
          /\ ac.questPhase =>
               /\ au.pc = "returned" /\ ac.session = au.session
               /\ ac.session.kind # "none" /\ ac.pc \in {"quests", "returned"})
  /\ [][ac' # ac =>
          /\ PhaseRank(ac'.pc) > PhaseRank(ac.pc)
          /\ ac'.questPhase # ac.questPhase => (ac.pc = "userInfo" /\ ac'.pc = "quests")
          /\ ac'.pc = "userInfo" => ac.pc = "postAuthSleep"
          /\ ac'.pc = "postAuthSleep" => ac.pc = "auth"
          /\ ac.pc = "userInfo" => (ac'.pc = "quests" /\ ac'.questPhase)]_vars

\* C23 witness: the user-info fetch timed out after 15 s and the quest phase is
\* running, after an authentication that returned the remote session.
C23_Witness_QuestsAfterUserInfoTimeout ==
  /\ ac.pc = "quests" /\ ac.questPhase /\ au.pc = "returned"
  /\ ac.userInfo = Rejected(TimeoutError(UserInfoTimeoutMs, "User info retrieval timed out"))
  /\ ac.session = Session("real")

\* The runs in which the provider fails one channel and answers the other.
FailingChannels == {"createError", "failed", "neverReady"}
OneChannelFails(a) ==
  /\ a.hasKey
  /\ \E i, j \in Solvers : /\ a.captcha.channel[i] = "ready"
                          /\ a.captcha.channel[j] \in FailingChannels

\* C13 (as claimed): when one channel fails and the other yields a token, the run
\* submits the login and reaches the quest phase, however the channel fails.
C13_OneTokenSuffices ==
  (ac.pc # "idle" /\ ac.keyValid /\ ac.returned /\ OneChannelFails(au)) =>
    /\ au.logins >= 1
    /\ ac.questPhase

\* With the shipped 120 s captcha timeout a channel that never becomes ready keeps
\* Promise.allSettled pending past the 60 s timer: the token of the other channel
\* is never used by the run, which ends with the authentication timeout.
SlowChannelPreempts ==
  (/\ ac.pc # "idle" /\ ac.keyValid /\ ac.returned /\ au.hasKey
   /\ \E j \in Solvers : au.captcha.channel[j] = "neverReady") =>
    /\ ~ac.questPhase
    /\ ac.session.kind = "none"
    /\ ac.result.error = "Authentication failed: Authentication timed out for account 1"

(***************************************************************************)
(* ProxyService.getProxyForAccount: the index of the proxy an account gets. *)
(***************************************************************************)
MaxAccountIndex == 6
MaxSwitchAfter == 3
MaxProxies == 3
NoProxy == -1

\* A rotation that ignores switch_after (the branch taken for an unknown mode).
ProxyIndexPerAccount(mode, switchAfter, length, accountIndex, random) ==
  IF mode = "random" THEN random ELSE (accountIndex - 1) % length

\* proxyIndex as computed for a non-empty list; `random` stands for
\* Math.floor(Math.random() * length).
ProxyIndex(mode, switchAfter, length, accountIndex, random) ==
  CASE mode = "sequential" -> ((accountIndex - 1) \div switchAfter) % length
    [] mode = "random" -> random
    [] OTHER -> (accountIndex - 1) % length

\* getProxyForAccount(accountIndex): null without proxies, else the index picked,
\* which is also saved in currentIndex.
GetProxyForAccount(p, accountIndex, random) ==
  IF ~p.enabled \/ p.length = 0
    THEN [p EXCEPT !.picks[accountIndex] = NoProxy, !.asked = @ \cup {accountIndex}]
    ELSE LET proxyIndex == ProxyIndex(p.mode, p.switchAfter, p.length, accountIndex, random)
         IN [p EXCEPT !.picks[accountIndex] = proxyIndex, !.currentIndex = proxyIndex,
                      !.asked = @ \cup {accountIndex}]

ProxyServices ==
  {[pc |-> "ready", enabled |-> e, mode |-> m, switchAfter |-> n, length |-> l,
    currentIndex |-> 0, picks |-> [i \in 1 .. MaxAccountIndex |-> NoProxy], asked |-> {}] :
     e \in BOOLEAN, m \in {"sequential", "random", "other"},
     n \in 1 .. MaxSwitchAfter, l \in 0 .. MaxProxies}

InitProxy ==
  /\ IdleRetry /\ IdleTimeout /\ IdleQuest /\ IdleMine /\ IdleAccount /\ IdleBot /\ IdlePlay /\ IdleGateway
  /\ px \in ProxyServices

\* Bot.runMainLoop asks for the proxy of account i.
PxGetProxy ==
  /\ px.pc = "ready"
  /\ \E i \in 1 .. MaxAccountIndex :
       /\ i \notin px.asked
       /\ \E random \in 0 .. (IF px.length = 0 THEN 0 ELSE px.length - 1) :
            px' = GetProxyForAccount(px, i, random)
  /\ UNCHANGED othersProxy

NextProxy == PxGetProxy

SpecProxy == InitProxy /\ [][NextProxy]_vars

Sequential(p) == p.pc = "ready" /\ p.enabled /\ p.mode = "sequential" /\ p.length >= 1

\* C17: in sequential mode account i gets the proxy at floor((i-1)/N) mod L, an
\* index within [0, L): the accounts of one block of N consecutive indices share a
\* proxy, the next block has the next proxy (wrapping), and with N = 1 and L = 2
\* accounts 1, 2, 3 get proxies 0, 1, 0.
C17_SequentialRotation ==
  Sequential(px) =>
    /\ \A i \in px.asked :
          /\ px.picks[i] >= 0 /\ px.picks[i] < px.length
          /\ px.picks[i] = ((i - 1) \div px.switchAfter) % px.length
          /\ i <= px.switchAfter => px.picks[i] = 0
    /\ \A i, j \in px.asked :
          /\ (\E b \in 0 .. MaxAccountIndex :
                 /\ b * px.switchAfter < i /\ i <= (b + 1) * px.switchAfter
                 /\ b * px.switchAfter < j /\ j <= (b + 1) * px.switchAfter)
               => px.picks[i] = px.picks[j]
          /\ j = i + px.switchAfter => px.picks[j] = (px.picks[i] + 1) % px.length
    /\ (px.switchAfter = 1 /\ px.length = 2) =>
          \A i \in px.asked \cap {1, 2, 3} : px.picks[i] = (IF i = 2 THEN 1 ELSE 0)

\* C17 witness: with N = 2 and L = 3 the accounts 1 to 6 were given proxies
\* 0, 0, 1, 1, 2, 2.
C17_Witness_HeldThenAdvanced ==
  /\ Sequential(px) /\ px.switchAfter = 2 /\ px.length = 3
  /\ px.asked = 1 .. 6
  /\ px.picks = [i \in 1 .. MaxAccountIndex |-> IF i > 6 THEN NoProxy ELSE (i - 1) \div 2]

(***************************************************************************)
(* The process: Bot.start / Bot.runMainLoop / Bot.stop (layout "Bot", with *)
(* the unhandledRejection handler of its index.js) and main() of the older *)
(* index.js (layout "main").  A worker is one chain of start() and         *)
(* runMainLoop() calls, each call continuing the one before it.            *)
(***************************************************************************)
MaxAccounts == 3
CycleMod == 3
MaxCalls == 2
DelayBetweenAccountsS == 5
DelayAfterCompletionH == 25
InitRetryMs == 60000
ErrorRestartMs == 5 * 60 * 1000
ProcessRestartMs == 30000
CooldownMs == DelayAfterCompletionH * 60 * 60 * 1000

Workers == {1, 2}
BotIds == {1, 2}
Ev(kind, n) == [kind |-> kind, n |-> n]

WorkerIdle ==
  [pc |-> "idle", bot |-> 1, i |-> 0, detached |-> FALSE, trace |-> <<>>,
   threw |-> FALSE, lastSleep |-> 0]

\* this.isRunning of the worker's Bot; main() has no such flag.
Running(b, v) == b.layout = "main" \/ b.isRunning[b.w[v].bot]

\* The promise of a start() or of a detached runMainLoop() resolves.
LoopReturns(b, v) == [b EXCEPT !.w[v] = WorkerIdle]

\* runMainLoop() rejects: start() catches it and sleeps 5 minutes; the rejection
\* of a detached call reaches the unhandledRejection handler, which sets a timer.
LoopThrows(b, v) ==
  IF b.w[v].detached
    THEN [b EXCEPT !.w[v] = WorkerIdle, !.restartTimers = @ + 1]
    ELSE [b EXCEPT !.w[v].pc = "errorSleep", !.w[v].lastSleep = ErrorRestartMs]

\* Past the for loop: the summary, then the cooldown if still running.
AfterLoop(b, v) ==
  IF Running(b, v)
    THEN [b EXCEPT !.w[v].pc = "cooldown", !.w[v].lastSleep = CooldownMs]
    ELSE LoopReturns(b, v)

\* The end of a pass: the delay before the next account, if there is one.
AfterIteration(b, v) ==
  LET me == b.w[v]
  IN IF me.i < b.keys - 1 /\ Running(b, v)
       THEN [b EXCEPT !.w[v].pc = "delay",
                      !.w[v].trace = Append(@, Ev("sleep", DelayBetweenAccountsS * 1000))]
       ELSE AfterLoop([b EXCEPT !.w[v].i = me.i + 1], v)

\* One pass of the for loop up to `await accountRunner.run()`.  `throws`: a
\* statement before the run (logger.info, getProxyForAccount) throws; in Bot.js
\* it is outside the try, in main() the outer catch counts a failure.
LoopHead(b, v, throws) ==
  LET me == b.w[v]
  IN IF me.i < b.keys /\ Running(b, v)
       THEN IF ~throws
              THEN [b EXCEPT !.w[v].pc = "account",
                             !.w[v].trace = Append(@, Ev("run", me.i + 1))]
            ELSE IF b.layout = "Bot" THEN LoopThrows(b, v)
            ELSE AfterIteration([b EXCEPT !.w[v].trace = Append(@, Ev("skip", me.i + 1)),
                                          !.failureCount[me.bot] = @ + 1], v)
       ELSE AfterLoop(b, v)

\* A loop in which an exception of an account run ends the cycle.
AfterAccountHalts(b, v, outcome) ==
  LET bid == b.w[v].bot
      c == [b EXCEPT !.w[v].threw = @ \/ outcome = "throws", !.w[v].lastSleep = 0]
  IN IF outcome = "throws" THEN LoopThrows(c, v)
     ELSE AfterIteration([c EXCEPT !.successCount[bid] = @ + 1], v)

\* accountRunner.run() settled: a result, a result with an error, or an exception.
AfterAccount(b, v, outcome) ==
  LET bid == b.w[v].bot
      failed == outcome = "throws" \/ (outcome = "error" /\ b.layout = "Bot")
      c == [b EXCEPT !.w[v].threw = @ \/ outcome = "throws", !.w[v].lastSleep = 0]
  IN IF failed
       THEN AfterIteration([c EXCEPT !.failureCount[bid] = @ + 1], v)
       ELSE AfterIteration([c EXCEPT !.successCount[bid] = @ + 1], v)

\* runMainLoop() entered: counters reset, then the first pass.
RunMainLoopEnter(b, v, detached, throws) ==
  LET bid == b.w[v].bot
  IN LoopHead([b EXCEPT !.successCount[bid] = 0, !.failureCount[bid] = 0,
                        !.w[v].i = 0, !.w[v].trace = <<>>, !.w[v].threw = FALSE,
                        !.w[v].detached = detached], v, throws)

\* start() (or main()) is called for worker v's Bot.
StartEnter(b, v) ==
  [b EXCEPT !.isRunning[b.w[v].bot] = TRUE, !.w[v].pc = "init",
            !.restarts = (@ + 1) % CycleMod]

\* initialize() settled (in main(): the loads at its top).
AfterInitialize(b, v, ok, throws) ==
  IF ok THEN RunMainLoopEnter(b, v, FALSE, throws)
  ELSE IF b.layout = "Bot"
    THEN [b EXCEPT !.w[v].pc = "initSleep", !.w[v].lastSleep = InitRetryMs]
    ELSE [b EXCEPT !.w[v].pc = "errorSleep", !.w[v].lastSleep = ErrorRestartMs]

\* A cooldown that ends the run.
AfterCooldownReturns(b, v, throws) == LoopReturns(b, v)

\* The cooldown is over: this.runMainLoop() without await, or main() again.
AfterCooldown(b, v, throws) ==
  IF ~Running(b, v) THEN LoopReturns(b, v)
  ELSE IF b.layout = "Bot"
    THEN RunMainLoopEnter([b EXCEPT !.restarts = (@ + 1) % CycleMod], v, TRUE, throws)
    ELSE StartEnter(b, v)

\* The 30 s timer of the unhandledRejection handler: startBot() makes a new Bot
\* and starts it.
StartBot(b, v, bid) ==
  StartEnter([b EXCEPT !.restartTimers = @ - 1, !.cur = bid,
                       !.w[v] = [WorkerIdle EXCEPT !.bot = bid,
                                                   !.lastSleep = ProcessRestartMs]], v)

BotStart(layout, keys) ==
  [pc |-> "running", layout |-> layout, keys |-> keys, cur |-> 1,
   isRunning |-> [bid \in BotIds |-> bid = 1],
   successCount |-> [bid \in BotIds |-> 0], failureCount |-> [bid \in BotIds |-> 0],
   restartTimers |-> 0, restarts |-> 0, calls |-> 0,
   w |-> [v \in Workers |-> IF v = 1 THEN [WorkerIdle EXCEPT !.pc = "init"] ELSE WorkerIdle]]

\* The process was launched: start() (or main()) is awaiting its loads.
InitBot ==
  /\ IdleRetry /\ IdleTimeout /\ IdleQuest /\ IdleMine /\ IdleAccount /\ IdleProxy
  /\ IdlePlay /\ IdleGateway
  /\ \E layout \in {"Bot", "main"}, keys \in 0 .. MaxAccounts : bot = BotStart(layout, keys)

Active(b) == {v \in Workers : b.w[v].pc # "idle"}
FreeWorkers(b) == Workers \ Active(b)
FreeBots(b) == BotIds \ {b.w[v].bot : v \in Active(b)}
Least(S) == CHOOSE x \in S : \A y \in S : x <= y

BotInitSettles ==
  /\ bot.pc = "running"
  /\ \E v \in Workers, ok \in BOOLEAN, throws \in BOOLEAN :
       /\ bot.w[v].pc = "init"
       /\ bot' = AfterInitialize(bot, v, ok, throws)
  /\ UNCHANGED othersBot

\* sleep(60000) after a failed initialize() is over: return this.start().
BotInitSleepDone ==
  /\ bot.pc = "running"
  /\ \E v \in Workers : bot.w[v].pc = "initSleep" /\ bot' = StartEnter(bot, v)
  /\ UNCHANGED othersBot

BotAccountSettles ==
  /\ bot.pc = "running"
  /\ \E v \in Workers, outcome \in {"ok", "error", "throws"} :
       /\ bot.w[v].pc = "account"
       /\ bot' = AfterAccount(bot, v, outcome)
  /\ UNCHANGED othersBot

\* sleep(delay_between_accounts * 1000) is over: i++ and the next pass.
BotDelayDone ==
  /\ bot.pc = "running"
  /\ \E v \in Workers, throws \in BOOLEAN :
       /\ bot.w[v].pc = "delay"
       /\ bot' = LoopHead([bot EXCEPT !.w[v].i = @ + 1], v, throws)
  /\ UNCHANGED othersBot

\* sleep(delay_after_completion hours) is over.
BotCooldownDone ==
  /\ bot.pc = "running"
  /\ \E v \in Workers, throws \in BOOLEAN :
       /\ bot.w[v].pc = "cooldown"
       /\ bot' = AfterCooldown(bot, v, throws)
  /\ UNCHANGED othersBot

\* sleep(5 minutes) in the catch block is over: this.start() (or main()).
BotErrorSleepDone ==
  /\ bot.pc = "running"
  /\ \E v \in Workers :
       /\ bot.w[v].pc = "errorSleep"
       /\ bot' = StartEnter([bot EXCEPT !.w[v].detached = FALSE], v)
  /\ UNCHANGED othersBot

\* The 30 s timer set by the unhandledRejection handler fires.
ProcessRestart ==
  /\ bot.pc = "running" /\ bot.restartTimers > 0
  /\ FreeWorkers(bot) # {} /\ FreeBots(bot) # {}
  /\ bot' = StartBot(bot, Least(FreeWorkers(bot)), Least(FreeBots(bot)))
  /\ UNCHANGED othersBot

\* bot.stop() is called on the current Bot.
StopCall ==
  /\ bot.pc = "running" /\ bot.layout = "Bot" /\ bot.isRunning[bot.cur]
  /\ bot.calls < MaxCalls
  /\ bot' = [bot EXCEPT !.isRunning[bot.cur] = FALSE, !.calls = @ + 1]
  /\ UNCHANGED othersBot

\* bot.start() is called on the current Bot after it was stopped (not while a
\* process-level restart is pending, and at most MaxCalls calls are made from
\* outside, which keeps the number of chains bounded).
StartCall ==
  /\ bot.pc = "running" /\ bot.layout = "Bot" /\ ~bot.isRunning[bot.cur]
  /\ FreeWorkers(bot) # {} /\ bot.restartTimers = 0 /\ bot.calls < MaxCalls
  /\ LET v == Least(FreeWorkers(bot))
     IN bot' = StartEnter([bot EXCEPT !.w[v] = [WorkerIdle EXCEPT !.bot = bot.cur],
                                      !.calls = @ + 1], v)
  /\ UNCHANGED othersBot

NextCycle ==
  \/ BotInitSettles \/ BotInitSleepDone \/ BotAccountSettles \/ BotDelayDone
  \/ BotCooldownDone \/ BotErrorSleepDone \/ ProcessRestart

NextBot == NextCycle \/ StopCall \/ StartCall

\* The process with stop() and start() called from outside at any time.
SpecBot == InitBot /\ [][NextBot]_vars

\* The process left to itself; every timer fires and every await settles.
SpecCycle == InitBot /\ [][NextCycle]_vars /\ WF_vars(NextCycle)

InLoop(b) == {v \in Workers : b.w[v].pc \in {"account", "delay", "cooldown"}}

\* C14 (as claimed): whatever stop() and start() calls are made, at most one
\* main loop is active and at most one account run is in progress.
C14_OneLoopAtATime ==
  bot.pc # "idle" =>
    /\ Cardinality(InLoop(bot)) <= 1
    /\ Cardinality({v \in Workers : bot.w[v].pc = "account"}) <= 1

\* Left to itself (no stop() or start() from outside) the process has one chain
\* of calls, so one loop and one account run at a time.
OneChainWithoutCalls ==
  bot.pc # "idle" =>
    /\ Cardinality(Active(bot)) + bot.restartTimers = 1
    /\ Cardinality(InLoop(bot)) <= 1

\* The events a full cycle over `keys` accounts leaves: account 1, the delay,
\* account 2, the delay, ..., the last account.
IsCyclePrefix(trace, keys) ==
  /\ Len(trace) <= (IF keys = 0 THEN 0 ELSE 2 * keys - 1)
  /\ \A k \in 1 .. Len(trace) :
        IF k % 2 = 1
          THEN trace[k].kind \in {"run", "skip"} /\ trace[k].n = (k + 1) \div 2
          ELSE trace[k] = Ev("sleep", DelayBetweenAccountsS * 1000)

\* C15: an account's failure never halts the batch.  In a cycle the accounts are
\* taken once each in list order, an account being run unless its own proxy lookup
\* threw, with the configured delay between two accounts and none after the last;
\* and whatever an account run settles with (a result, an error result, an
\* exception), the loop goes on to the delay before the next account or, after
\* the last account, to the cooldown.
C15_FailureNeverHaltsBatch ==
  /\ [](bot.pc # "idle" =>
         \A v \in Workers :
           LET me == bot.w[v]
           IN /\ IsCyclePrefix(me.trace, bot.keys)
              /\ \A k \in 1 .. Len(me.trace) :
                    me.trace[k].kind = "skip" => bot.layout = "main"
              /\ me.pc = "account" =>
                    /\ Len(me.trace) = 2 * me.i + 1
                    /\ me.trace[Len(me.trace)] = Ev("run", me.i + 1)
                    /\ bot.successCount[me.bot] + bot.failureCount[me.bot] = me.i
              /\ me.pc = "delay" => Len(me.trace) = 2 * me.i + 2 /\ me.i + 1 < bot.keys
              /\ me.pc = "cooldown" =>
                    /\ Len(me.trace) = (IF bot.keys = 0 THEN 0 ELSE 2 * bot.keys - 1)
                    /\ me.i = bot.keys
                    /\ bot.successCount[me.bot] + bot.failureCount[me.bot] = bot.keys)
  /\ [][\A v \in Workers :
         bot.w[v].pc = "account" =>
           \/ bot'.w[v] = bot.w[v]
           \/ /\ bot.w[v].i + 1 < bot.keys
              /\ bot'.w[v].pc = "delay" /\ bot'.w[v].i = bot.w[v].i
           \/ /\ bot.w[v].i + 1 = bot.keys
              /\ bot'.w[v].pc = "cooldown"]_vars

\* C15 witness: three accounts, of which one run threw, one returned an error
\* result and one succeeded; all three were run and the cycle reached its cooldown.
C15_Witness_AllRunDespiteFailures ==
  \E v \in Workers :
    /\ bot.keys = 3 /\ bot.layout = "Bot" /\ bot.w[v].pc = "cooldown"
    /\ bot.w[v].threw /\ bot.failureCount[1] = 2 /\ bot.successCount[1] = 1
    /\ bot.w[v].trace = <<Ev("run", 1), Ev("sleep", 5000), Ev("run", 2), Ev("sleep", 5000),
                          Ev("run", 3)>>

\* C16: the process never stops by itself, and every cycle is followed by another
\* start of the run: after the cooldown that ends a cycle, after the 5 minutes
\* that follow a cycle's exception caught by start() (or main()), and after the
\* 30 s that follow the rejection of a later, detached cycle; in Bot.js the new
\* cycle entered after the cooldown begins at the first account.
C16_CycleAlwaysRestarts ==
  /\ [](bot.pc # "idle" => (Active(bot) # {} \/ bot.restartTimers > 0))
  /\ \A c \in 0 .. (CycleMod - 1) :
        (/\ bot.pc # "idle" /\ bot.restarts = c
         /\ \/ bot.restartTimers > 0
            \/ \E v \in Workers : bot.w[v].pc \in {"cooldown", "errorSleep", "initSleep"})
          ~> (bot.restarts = (c + 1) % CycleMod)
  /\ [][bot'.restarts # bot.restarts =>
         \E v \in Workers :
           /\ \/ bot.w[v].pc \in {"cooldown", "errorSleep", "initSleep"}
              \/ bot.restartTimers > 0 /\ bot.w[v].pc = "idle"
           /\ bot'.w[v].pc # "idle" =>
                 bot'.w[v].lastSleep \in {CooldownMs, ErrorRestartMs, InitRetryMs,
                                          ProcessRestartMs}
           /\ (bot.w[v].pc = "cooldown" /\ bot.layout = "Bot" /\ bot.keys > 0
               /\ bot'.w[v].pc = "account") =>
                 /\ bot'.w[v].i = 0 /\ bot'.w[v].trace = <<Ev("run", 1)>>]_vars

\* C16 witness: a later cycle threw, the process-level timer started a new Bot, and
\* that Bot is running its first account.
C16_Witness_RestartedAfterLaterThrow ==
  /\ bot.pc = "running" /\ bot.layout = "Bot" /\ bot.restartTimers = 0
  /\ \E v \in Workers :
       /\ bot.w[v].pc = "account" /\ bot.w[v].i = 0 /\ ~bot.w[v].detached
       /\ bot.w[v].lastSleep = ProcessRestartMs


(***************************************************************************)
(* ApiClient._setupInterceptors: the response interceptor keeps the        *)
(* cookies of a response in the default headers of the axios instance,     *)
(* which every later request of that instance sends.                       *)
(***************************************************************************)
MaxRequests == 3
Cookies == {"csrf=a", "session=b", "callback=c"}

\* response.headers['set-cookie']: a list of cookies; <<>> when the header is absent.
SetCookieHeaders ==
  {<<>>} \cup {<<c>> : c \in Cookies}
  \cup {p \in Cookies \X Cookies : p[1] # p[2]}

\* list.join(sep)
RECURSIVE Join(_, _)
Join(list, sep) ==
  IF list = <<>> THEN ""
  ELSE IF Len(list) = 1 THEN list[1]
  ELSE list[1] \o sep \o Join(Tail(list), sep)

\* A new ApiClient: no Cookie header ("": none); `set` holds the cookies that
\* fulfilled responses have set so far, `sent` the header of the last request.
ClientStart == [pc |-> "ready", cookie |-> "", requests |-> 0, sent |-> "", set |-> {}]

\* The interceptor of fulfilled responses.
OnResponse(g, setCookie) ==
  IF setCookie # <<>> THEN [g EXCEPT !.cookie = Join(setCookie, "; ")] ELSE g

\* The interceptor of failed requests: it logs and rejects.
OnResponseError(g) == g

InitGateway ==
  /\ IdleRetry /\ IdleTimeout /\ IdleQuest /\ IdleMine /\ IdleAccount /\ IdleProxy /\ IdleBot
  /\ IdlePlay
  /\ gw = ClientStart

\* A request is sent with the default headers and its response is fulfilled.
GwRequestFulfilled ==
  /\ gw.pc = "ready" /\ gw.requests < MaxRequests
  /\ \E setCookie \in SetCookieHeaders :
       gw' = [OnResponse(gw, setCookie) EXCEPT
                !.requests = gw.requests + 1, !.sent = gw.cookie,
                !.set = gw.set \cup {setCookie[i] : i \in 1 .. Len(setCookie)}]
  /\ UNCHANGED othersGateway

\* A request is sent with the default headers and fails.
GwRequestFails ==
  /\ gw.pc = "ready" /\ gw.requests < MaxRequests
  /\ gw' = [OnResponseError(gw) EXCEPT !.requests = gw.requests + 1, !.sent = gw.cookie]
  /\ UNCHANGED othersGateway

NextGateway == GwRequestFulfilled \/ GwRequestFails

SpecGateway == InitGateway /\ [][NextGateway]_vars

\* C27 (as claimed): on one gateway instance every cookie set by an earlier response
\* is in the Cookie header that the following calls send, also when a later
\* response has set a different cookie.
C27_CookiesAccumulate ==
  gw.pc # "idle" => \A c \in gw.set : Contains(gw.cookie, c)

====
